---- MODULE Spec2Model ----
(***************************************************************************)
(* A model of the compaction subsystem of the sharded LSM engine           *)
(* (src/sdb/compaction.go): the job builder (fillTables), the executors    *)
(* (CompactTables for L>=1, shardL0BuildHelper.buildOne for L0->L1), the   *)
(* change-set applier (applyCompaction) and the dispatch loop.             *)
(*                                                                         *)
(* User keys are the numbers 1..NumKeys (0 is the empty key), versions are *)
(* 1..MaxVer.  A record is one key/value entry of a table.                 *)
(***************************************************************************)
EXTENDS Integers, Sequences, FiniteSets, TLC

\* ------------------------------------------------------------------ bounds
NumKeys == 3
MaxVer == 3
MaxRecs == 3
MaxKey == 4
MaxJobs == 3
ShardMaxLevel == 3
NumShards == 3
MaxScore == 3
NumCallers == 3
MaxTables == 3

\* ------------------------------------------------------- program constants
minSkippedTableSize == 1048576
bitDelete == 1
DecisionKeep == 0
DecisionMarkTombstone == 1
DecisionDrop == 2

\* The size every record contributes to a table (the model's unit of size):
\* a table of two records reaches minSkippedTableSize, one of one does not.
RecSize == minSkippedTableSize \div 2

UserKeys == 1..NumKeys
Versions == 1..MaxVer
Decisions == {DecisionKeep, DecisionMarkTombstone, DecisionDrop}

\* ------------------------------------------------------------ keys, values
\* y.Key{UserKey, Version}; the zero Key has an empty UserKey.
EmptyKey == [uk |-> 0, ver |-> 0]

IsEmpty(k) == k.uk = 0

SameUserKey(a, b) == a.uk = b.uk

\* y.Key.Compare: user key ascending, then version descending.
Compare(a, b) ==
    IF a.uk < b.uk THEN -1
    ELSE IF a.uk > b.uk THEN 1
    ELSE IF a.ver > b.ver THEN -1
    ELSE IF a.ver < b.ver THEN 1
    ELSE 0

\* Mutant: no record counts as a delete-marker.
isDeleted_Never(meta) == FALSE

\* isDeleted(vs.Meta).
isDeleted(meta) == meta = bitDelete

\* A record of a table: the Key and its y.ValueStruct (Meta, UserMeta, Value).
\* A put of version v carries value v and user meta 1; a delete carries neither.
PutRec(k, v) == [uk |-> k, ver |-> v, meta |-> 0, um |-> 1, val |-> v]
DelRec(k, v) == [uk |-> k, ver |-> v, meta |-> bitDelete, um |-> 0, val |-> 0]

KeyOf(r) == [uk |-> r.uk, ver |-> r.ver]

\* y.ValueStruct{Meta: bitDelete} added under the record's key.
TombstoneOf(r) == [uk |-> r.uk, ver |-> r.ver, meta |-> bitDelete, um |-> 0, val |-> 0]

\* ------------------------------------------------------------------ tables
\* A table is [id, recs]: recs is its sorted run (user key ascending, version
\* descending), never empty.  Its size is RecSize per record.
\* The version math.MaxUint64 of a table's smallest key: above every version.
TopVer == MaxVer + 1

Smallest(t) == [uk |-> t.recs[1].uk, ver |-> TopVer]

Biggest(t) == [uk |-> t.recs[Len(t.recs)].uk, ver |-> 0]

Size(t) == Len(t.recs) * RecSize

Ids(tables) == {tables[i].id : i \in 1..Len(tables)}

RECURSIVE sumTableSize(_)
sumTableSize(tables) ==
    IF tables = <<>> THEN 0 ELSE Size(Head(tables)) + sumTableSize(Tail(tables))

\* table.Table.HasOverlap(start, end, includeEnd = true): some key of t lies in
\* [start, end].
HasOverlap(t, start, end) ==
    \E i \in 1..Len(t.recs) :
        /\ Compare(KeyOf(t.recs[i]), start) >= 0
        /\ Compare(KeyOf(t.recs[i]), end) <= 0

\* table.NewConcatIterator over tables of one level: their runs in sequence.
RECURSIVE ConcatIterator(_)
ConcatIterator(tables) ==
    IF tables = <<>> THEN <<>>
    ELSE Head(tables).recs \o ConcatIterator(Tail(tables))

\* table.NewMergeIterator of two sorted runs: Key order, and on equal Keys the
\* first iterator's entry wins and the second's is passed over.
RECURSIVE Merge2(_, _)
Merge2(a, b) ==
    IF a = <<>> THEN b
    ELSE IF b = <<>> THEN a
    ELSE LET c == Compare(KeyOf(Head(a)), KeyOf(Head(b)))
         IN IF c < 0 THEN <<Head(a)>> \o Merge2(Tail(a), b)
            ELSE IF c > 0 THEN <<Head(b)>> \o Merge2(a, Tail(b))
            ELSE <<Head(a)>> \o Merge2(Tail(a), Tail(b))

RECURSIVE MergeIterator(_)
MergeIterator(iters) ==
    IF iters = <<>> THEN <<>>
    ELSE Merge2(Head(iters), MergeIterator(Tail(iters)))

\* The sorted run holding the records of the set S.
RECURSIVE SortRecs(_)
SortRecs(S) ==
    IF S = {} THEN <<>>
    ELSE LET m == CHOOSE r \in S : \A o \in S : Compare(KeyOf(r), KeyOf(o)) <= 0
         IN <<m>> \o SortRecs(S \ {m})

\* ------------------------------------------------------- the L>=1 executor
\* A CompactionFilter is [on, d]: on is FALSE for a nil filter, d the pure
\* function of the user key it computes; Filter is the call
\* cd.Filter.Filter(cf, key.UserKey, vs.Value, vs.UserMeta).
NilFilter == [on |-> FALSE, d |-> [k \in UserKeys |-> DecisionKeep]]

Filter(f, cf, vs) == f.d[vs.uk]

\* Mutant: a version equal to the watermark counts as above it.
versionBelowSafeTS_Strict(key, safeTS) == key.ver < safeTS

\* Mutant: the watermark is not consulted.
versionBelowSafeTS_Always(key, safeTS) == TRUE

\* "if key.Version <= cd.SafeTS": the version is readable at the watermark.
versionBelowSafeTS(key, safeTS) == key.ver <= safeTS

\* Mutant: every record may end the file.
startsUserKey_Always(key, lastKey) == TRUE

\* "if !key.SameUserKey(lastKey)": the record starts another user key.
startsUserKey(key, lastKey) == ~SameUserKey(key, lastKey)

\* Mutant: the filter's MarkTombstone always writes a delete-marker.
writesTombstone_Always(cd) == TRUE

\* "if cd.HasOverlap { builder.Add(key, y.ValueStruct{Meta: bitDelete}) }": the
\* filter's MarkTombstone writes a delete-marker only over a deeper overlap.
writesTombstone(cd) == cd.HasOverlap

\* Mutant: delete-markers are always kept.
keepsTombstone_Always(cd) == TRUE

\* "if !cd.HasOverlap { continue }": a delete-marker at or below the watermark
\* is kept only when a deeper level overlaps the job.
keepsTombstone(cd) == cd.HasOverlap

shouldFinishFile(lastKey, currentSize, maxSize) ==
    IF IsEmpty(lastKey) THEN FALSE
    ELSE ~IsEmpty(lastKey) /\ currentSize > maxSize

\* overSkipTables: pass the skipped tables whose biggest key is below key.
RECURSIVE overSkipCount(_, _)
overSkipCount(key, skippedTables) ==
    IF skippedTables = <<>> THEN 0
    ELSE IF Compare(key, Biggest(Head(skippedTables))) > 0
         THEN 1 + overSkipCount(key, Tail(skippedTables))
         ELSE 0

\* Mutant: no skipped table is ever passed.
overSkipTables_Never(key, skippedTables) == [tbls |-> skippedTables, over |-> FALSE]

overSkipTables(key, skippedTables) ==
    LET i == overSkipCount(key, skippedTables)
    IN [tbls |-> SubSeq(skippedTables, i + 1, Len(skippedTables)), over |-> i > 0]

\* sstable.Builder.EstimateSize of a builder holding the records b.
EstimateSize(b) == Len(b) * RecSize

\* The executor's loop state at the start of CompactTables.
ExecInit(firstID) ==
    [it |-> 1, lastKey |-> EmptyKey, skipKey |-> EmptyKey, builder |-> <<>>,
     skippedTbls |-> <<>>, results |-> <<>>, nextID |-> firstID,
     opened |-> <<>>, calls |-> <<>>, discarded |-> <<>>]

\* One pass of the per-key loop on the record under the iterator, given that
\* it is not passed over by skipKey and does not end the file: the MVCC rules.
CTEmit(cd, e, vs) ==
    LET key == KeyOf(vs)
        next == [e EXCEPT !.it = @ + 1]
        add(r) == [next EXCEPT !.builder = Append(@, r)]
    IN IF versionBelowSafeTS(key, cd.SafeTS)
       THEN LET s == [next EXCEPT !.skipKey = key]
                sadd(r) == [s EXCEPT !.builder = Append(@, r)]
            IN IF isDeleted(vs.meta)
               THEN IF ~keepsTombstone(cd) THEN s ELSE sadd(vs)
               ELSE IF cd.Filter.on
               THEN LET d == Filter(cd.Filter, cd.CF, vs)
                        c == [s EXCEPT !.calls = Append(@, [cf |-> cd.CF, rec |-> vs])]
                        cd1 == [c EXCEPT !.discarded = Append(@, vs)]
                    IN IF d = DecisionMarkTombstone
                       THEN IF writesTombstone(cd)
                            THEN [cd1 EXCEPT !.builder = Append(@, TombstoneOf(vs))]
                            ELSE cd1
                       ELSE IF d = DecisionDrop THEN cd1
                       ELSE [c EXCEPT !.builder = Append(@, vs)]
               ELSE sadd(vs)
       ELSE add(vs)

\* The inner loop of CompactTables (for ; it.Valid(); y.NextAllVersion(it)):
\* runs until the iterator is exhausted or a break ends the file.
RECURSIVE CTInner(_, _, _)
CTInner(cd, stream, e) ==
    IF e.it > Len(stream) THEN e
    ELSE LET vs == stream[e.it]
             key == KeyOf(vs)
         IN IF ~IsEmpty(e.skipKey) /\ SameUserKey(key, e.skipKey)
            THEN CTInner(cd, stream,
                     [e EXCEPT !.it = @ + 1, !.discarded = Append(@, vs)])
            ELSE LET e1 == [e EXCEPT !.skipKey = EmptyKey]
                 IN IF startsUserKey(key, e1.lastKey)
                    THEN LET os == IF Len(e1.skippedTbls) > 0
                                   THEN overSkipTables(key, e1.skippedTbls)
                                   ELSE [tbls |-> e1.skippedTbls, over |-> FALSE]
                             e2 == [e1 EXCEPT !.skippedTbls = os.tbls]
                         IN IF os.over /\ e2.builder # <<>> THEN e2
                            ELSE IF shouldFinishFile(e2.lastKey,
                                        EstimateSize(e2.builder) + RecSize,
                                        cd.MaxTableSize)
                            THEN e2
                            ELSE CTInner(cd, stream,
                                     CTEmit(cd, [e2 EXCEPT !.lastKey = key], vs))
                    ELSE CTInner(cd, stream, CTEmit(cd, e1, vs))

\* The outer loop of CompactTables (for it.Valid()): one output file per turn.
RECURSIVE CTOuter(_, _, _)
CTOuter(cd, stream, e) ==
    IF e.it > Len(stream) THEN e
    ELSE LET id == e.nextID
             started == [e EXCEPT !.nextID = @ + 1, !.opened = Append(@, id),
                                  !.builder = <<>>, !.lastKey = EmptyKey]
             ended == CTInner(cd, stream, started)
         IN IF ended.builder = <<>> THEN CTOuter(cd, stream, ended)
            ELSE CTOuter(cd, stream,
                     [ended EXCEPT !.results = Append(@, [id |-> id, recs |-> ended.builder]),
                                   !.builder = <<>>])

\* CompactDef.buildIterator for Level >= 1.
buildIterator(cd) ==
    MergeIterator(<<ConcatIterator(cd.Top), ConcatIterator(cd.Bot)>>)

\* CompactTables(cd): the final loop state; .results are the build results.
CompactTables(cd, firstID) ==
    CTOuter(cd, buildIterator(cd),
            [ExecInit(firstID) EXCEPT !.skippedTbls = cd.SkippedTbls])

\* ------------------------------------------------------ the L0->L1 executor
\* The MVCC rules of shardL0BuildHelper.buildOne for the record under the
\* iterator; the filter is called with CF 0.
BOEmit(h, e, vs) ==
    LET key == KeyOf(vs)
        next == [e EXCEPT !.it = @ + 1]
    IN IF versionBelowSafeTS(key, h.safeTS)
       THEN LET s == [next EXCEPT !.skipKey = key]
            IN IF ~isDeleted(vs.meta) /\ h.filter.on
               THEN LET d == Filter(h.filter, 0, vs)
                        c == [s EXCEPT !.calls = Append(@, [cf |-> 0, rec |-> vs])]
                    IN IF d = DecisionMarkTombstone
                       THEN [c EXCEPT !.builder = Append(@, TombstoneOf(vs))]
                       ELSE IF d = DecisionDrop THEN c
                       ELSE [c EXCEPT !.builder = Append(@, vs)]
               ELSE [s EXCEPT !.builder = Append(@, vs)]
       ELSE [next EXCEPT !.builder = Append(@, vs)]

\* The loop of buildOne: until the iterator is exhausted or the table is full.
RECURSIVE BOLoop(_, _, _)
BOLoop(h, stream, e) ==
    IF e.it > Len(stream) THEN e
    ELSE LET vs == stream[e.it]
             key == KeyOf(vs)
         IN IF ~IsEmpty(e.skipKey) /\ SameUserKey(key, e.skipKey)
            THEN BOLoop(h, stream, [e EXCEPT !.it = @ + 1])
            ELSE LET e1 == [e EXCEPT !.skipKey = EmptyKey]
                 IN IF startsUserKey(key, e1.lastKey)
                    THEN IF EstimateSize(e1.builder) > h.MaxTableSize
                         THEN e1
                         ELSE BOLoop(h, stream,
                                  BOEmit(h, [e1 EXCEPT !.lastKey = key], vs))
                    ELSE BOLoop(h, stream, BOEmit(h, e1, vs))

\* buildOne: allocates a file id, fills one table; .last holds the build
\* result, and is empty (nil) when the builder stayed empty.
buildOne(h, stream, e) ==
    LET id == e.nextID
        started == [e EXCEPT !.nextID = @ + 1, !.opened = Append(@, id),
                             !.builder = <<>>, !.lastKey = EmptyKey,
                             !.skipKey = EmptyKey]
        ended == BOLoop(h, stream, started)
    IN IF ended.builder = <<>> THEN [st |-> ended, last |-> <<>>]
       ELSE [st |-> [ended EXCEPT !.builder = <<>>],
             last |-> <<[id |-> id, recs |-> ended.builder]>>]

\* The loop of compactShardMultiCFL0 for one CF: buildOne until it returns nil.
RECURSIVE buildAll(_, _, _)
buildAll(h, stream, e) ==
    LET r == buildOne(h, stream, e)
    IN IF r.last = <<>> THEN r.st
       ELSE buildAll(h, stream, [r.st EXCEPT !.results = @ \o r.last])

\* --------------------------------------------------------- the job builder
\* Go's slice s[lo:hi] of a sequence (indices from 0, hi exclusive).
Slice(s, lo, hi) == SubSeq(s, lo + 1, hi)

\* sort.Search on a sorted level: the first index (from 0) of a table whose
\* biggest key is at or after key, Len(tables) when there is none.
RECURSIVE searchBiggest(_, _, _)
searchBiggest(tables, key, i) ==
    IF i >= Len(tables) THEN Len(tables)
    ELSE IF Compare(key, Biggest(tables[i + 1])) <= 0 THEN i
    ELSE searchBiggest(tables, key, i + 1)

\* sort.Search on a sorted level: the first index (from 0) of a table whose
\* smallest key is after key, Len(tables) when there is none.
RECURSIVE searchSmallest(_, _, _)
searchSmallest(tables, key, i) ==
    IF i >= Len(tables) THEN Len(tables)
    ELSE IF Compare(key, Smallest(tables[i + 1])) < 0 THEN i
    ELSE searchSmallest(tables, key, i + 1)

\* getTablesInRange: [left, right) of the tables that intersect [start, end].
getTablesInRange(tables, start, end) ==
    [left |-> searchBiggest(tables, start, 0),
     right |-> searchSmallest(tables, end, 0)]

\* calcRatio as an exact fraction n/d: topSize when botSize is 0, else
\* topSize/botSize (both are multiples of RecSize).
calcRatio(topSize, botSize) ==
    IF botSize = 0 THEN [n |-> topSize, d |-> 1]
    ELSE [n |-> topSize \div RecSize, d |-> botSize \div RecSize]

\* Mutant: a later table of equal ratio replaces the candidate.
RatioGreater_OrEqual(a, b) == a.n * b.d >= b.n * a.d

RatioGreater(a, b) == a.n * b.d > b.n * a.d

\* The zero CompactDef of a job on (cf, level).
NewCompactDef(cf, level) ==
    [CF |-> cf, Level |-> level, Top |-> <<>>, Bot |-> <<>>, SkippedTbls |-> <<>>,
     SafeTS |-> 0, Filter |-> NilFilter, HasOverlap |-> FALSE, MaxTableSize |-> 0,
     thisRange |-> [left |-> EmptyKey, right |-> EmptyKey],
     nextRange |-> [left |-> EmptyKey, right |-> EmptyKey],
     topSize |-> 0, topLeftIdx |-> 0, topRightIdx |-> 0,
     botSize |-> 0, botLeftIdx |-> 0, botRightIdx |-> 0]

\* fillTables, first loop: the table with the greatest topSize/botSize ratio,
\* the first one on ties; st.ratio is candidateRatio.
RECURSIVE pickSeed(_, _, _, _)
pickSeed(this, next, i, st) ==
    IF i >= Len(this) THEN st
    ELSE LET t == this[i + 1]
             r == getTablesInRange(next, Smallest(t), Biggest(t))
             botSize == sumTableSize(Slice(next, r.left, r.right))
             ratio == calcRatio(Size(t), botSize)
         IN IF RatioGreater(ratio, st.ratio)
            THEN pickSeed(this, next, i + 1,
                     [ratio |-> ratio,
                      cd |-> [st.cd EXCEPT !.topLeftIdx = i, !.topRightIdx = i + 1,
                                           !.Top = <<t>>, !.topSize = Size(t),
                                           !.botLeftIdx = r.left, !.botRightIdx = r.right,
                                           !.botSize = botSize]])
            ELSE pickSeed(this, next, i + 1, st)

\* fillTables, second loop: take the top tables to the left while no bottom
\* table is left between the windows.  st is [cd, bots].
RECURSIVE expandLeft(_, _, _, _)
expandLeft(this, next, i, st) ==
    IF i < 0 THEN st
    ELSE LET t == this[i + 1]
             r == getTablesInRange(next, Smallest(t), Biggest(t))
             cd == st.cd
         IN IF r.right < cd.botLeftIdx THEN st
            ELSE expandLeft(this, next, i - 1,
                     [cd |-> [cd EXCEPT
                                !.Top = <<t>> \o @,
                                !.topLeftIdx = @ - 1,
                                !.botLeftIdx = r.left,
                                !.topSize = Size(t) + @,
                                !.botSize = sumTableSize(Slice(next, r.left, cd.botLeftIdx)) + @],
                      bots |-> Slice(next, r.left, cd.botLeftIdx) \o st.bots])

\* fillTables, third loop: the same to the right.
RECURSIVE expandRight(_, _, _, _)
expandRight(this, next, i, st) ==
    IF i >= Len(this) THEN st
    ELSE LET t == this[i + 1]
             r == getTablesInRange(next, Smallest(t), Biggest(t))
             cd == st.cd
         IN IF r.left > cd.botRightIdx THEN st
            ELSE expandRight(this, next, i + 1,
                     [cd |-> [cd EXCEPT
                                !.Top = Append(@, t),
                                !.topRightIdx = @ + 1,
                                !.botRightIdx = r.right,
                                !.topSize = Size(t) + @,
                                !.botSize = sumTableSize(Slice(next, cd.botRightIdx, r.right)) + @],
                      bots |-> st.bots \o Slice(next, cd.botRightIdx, r.right)])

\* Mutant: every table of the window goes to Bot.
fillBottomTables_AllBot(cd, overlappingTables) ==
    [cd EXCEPT !.Bot = @ \o overlappingTables]

\* fillBottomTables: a table of the window goes to Bot when a top table has a
\* key in its range or it is smaller than minSkippedTableSize, else to
\* SkippedTbls.
RECURSIVE fillBottomTables(_, _)
fillBottomTables(cd, overlappingTables) ==
    IF overlappingTables = <<>> THEN cd
    ELSE LET t == Head(overlappingTables)
             added == \E i \in 1..Len(cd.Top) :
                          HasOverlap(cd.Top[i], Smallest(t), Biggest(t))
         IN fillBottomTables(
                IF added \/ Size(t) < minSkippedTableSize
                THEN [cd EXCEPT !.Bot = Append(@, t)]
                ELSE [cd EXCEPT !.SkippedTbls = Append(@, t)],
                Tail(overlappingTables))

\* fillTables, its end: botSize without the tables fillBottomTables skipped.
fillTablesSized(filled) ==
    [ok |-> TRUE,
     cd |-> [filled EXCEPT !.botSize = @ - sumTableSize(filled.SkippedTbls)]]

\* fillTables after its loops: thisRange, nextRange and fillBottomTables on
\* the window st = [cd, bots].
fillTablesRanges(st) ==
    LET thisRange == [left |-> Smallest(st.cd.Top[1]),
                      right |-> Biggest(st.cd.Top[Len(st.cd.Top)])]
        nextRange == IF Len(st.bots) > 0
                     THEN [left |-> Smallest(st.bots[1]),
                           right |-> Biggest(st.bots[Len(st.bots)])]
                     ELSE thisRange
    IN fillTablesSized(
           fillBottomTables([st.cd EXCEPT !.thisRange = thisRange,
                                          !.nextRange = nextRange],
                            st.bots))

\* Mutant: no table to the right of the seed is taken.
fillTablesRight_None(this, next, st) == st

\* fillTables, the third loop from cd.topRightIdx on.
fillTablesRight(this, next, st) == expandRight(this, next, st.cd.topRightIdx, st)

\* fillTables from the seed cd the first loop left.
fillTablesSeeded(this, next, cd) ==
    IF Len(cd.Top) = 0 THEN [ok |-> FALSE, cd |-> cd]
    ELSE fillTablesRanges(
             fillTablesRight(this, next,
                 expandLeft(this, next, cd.topLeftIdx - 1,
                     [cd |-> cd,
                      bots |-> Slice(next, cd.botLeftIdx, cd.botRightIdx)])))

\* CompactDef.fillTables on the tables of this level and of the next:
\* [ok, cd].
fillTables(cd0, this, next) ==
    IF Len(this) = 0 THEN [ok |-> FALSE, cd |-> cd0]
    ELSE fillTablesSeeded(this, next,
             pickSeed(this, next, 0, [ratio |-> [n |-> 0, d |-> 1], cd |-> cd0]).cd)

moveDown_Never(cd) == FALSE

\* CompactDef.moveDown.
moveDown(cd) == cd.Level > 0 /\ Len(cd.Bot) = 0 /\ Len(cd.SkippedTbls) = 0

\* ---------------------------------------------------------------- the shard
\* One shard, active and not splitting.  Its options: two column families,
\* both Managed, no CompactionFilterFactory, no S3 client.
numCFs == 2
NumLevelZeroTables == 1
NumCompactors == 2
LevelOneSize == RecSize \div 64
MaxTableSize == 2 * RecSize

\* The Ver of the Shard object the dispatch loop and its workers hold.
ShardVer == 1

CFs == 0..(numCFs - 1)
Levels == 1..ShardMaxLevel
ShardKeys == 1..MaxKey

\* An L0 table is [id, cfs]: cfs[cf] is its sorted run of column family cf,
\* empty when the table holds nothing of cf.
L0Size(t) == sumTableSize([cf \in 1..numCFs |-> [id |-> t.id, recs |-> t.cfs[cf - 1]]])

RECURSIVE l0TotalSize(_)
l0TotalSize(l0) == IF l0 = <<>> THEN 0 ELSE L0Size(Head(l0)) + l0TotalSize(Tail(l0))

\* A levelHandler is [tables, totalSize].
newLevelHandler == [tables |-> <<>>, totalSize |-> 0]

\* A score as an exact fraction n/d.
ScoreGreater_OrEqual(a, b) == a.n * b.d >= b.n * a.d

\* score > maxPri.Score.
ScoreGreater(a, b) == a.n * b.d > b.n * a.d

RECURSIVE Pow10(_)
Pow10(n) == IF n = 0 THEN 1 ELSE 10 * Pow10(n - 1)

\* totalSize / (LevelOneSize * 10^(level-1)); LevelOneSize divides every size.
levelScore(h, level) == [n |-> h.totalSize \div LevelOneSize, d |-> Pow10(level - 1)]

\* sizeScore*0.6 + numTblsScore*0.4.
l0Score(l0) ==
    [n |-> 6 * (l0TotalSize(l0) \div LevelOneSize) * 10 * NumLevelZeroTables + 4 * Len(l0),
     d |-> 10 * NumLevelZeroTables]

\* getCompactionPriority, the loop over cfs and levels 1..ShardMaxLevel: k
\* counts the passes, CF-major.
RECURSIVE scanLevels(_, _, _)
scanLevels(lv, k, maxPri) ==
    IF k >= numCFs * ShardMaxLevel THEN maxPri
    ELSE LET cf == k \div ShardMaxLevel
             level == (k % ShardMaxLevel) + 1
             score == levelScore(lv[cf][level], level)
         IN scanLevels(lv, k + 1,
                IF ScoreGreater(score, maxPri.Score)
                THEN [CF |-> cf, Level |-> level, Score |-> score]
                ELSE maxPri)

getCompactionPriority(l0, lv) ==
    IF Len(l0) > NumLevelZeroTables
    THEN [CF |-> -1, Level |-> 0, Score |-> l0Score(l0)]
    ELSE scanLevels(lv, 0, [CF |-> 0, Level |-> 0, Score |-> [n |-> 0, d |-> 1]])

\* GetCompactionPriorities over the one shard of the map: inMap tells that
\* the map holds the shard, pas is IsPassive(), flag is compacting.
GetCompactionPriorities(inMap, pas, flag, l0, lv) ==
    IF inMap /\ ~pas /\ ~flag
    THEN LET pri == getCompactionPriority(l0, lv)
         IN IF pri.Score.n > pri.Score.d THEN <<pri>> ELSE <<>>
    ELSE <<>>

\* A ShardCompaction is [Cf, Level, TopDeletes, BottomDeletes, TableCreates];
\* a TableCreate is [ID, CF, Level, file], file being the run stored in the
\* file of that ID.
NoCompaction ==
    [Cf |-> 0, Level |-> 0, TopDeletes |-> <<>>, BottomDeletes |-> <<>>,
     TableCreates |-> <<>>]

getTblIDs(tables) == [i \in 1..Len(tables) |-> tables[i].id]

newTableCreate(t, cf, level) == [ID |-> t.id, CF |-> cf, Level |-> level, file |-> t.recs]

newTableCreates(tables, cf, level) ==
    [i \in 1..Len(tables) |-> newTableCreate(tables[i], cf, level)]

\* levelsCF.setHasOverlapping: some table of a level from cd.Level+2 on
\* intersects the union of thisRange and nextRange.
setHasOverlapping(lvcf, cd) ==
    LET left == IF Compare(cd.thisRange.left, cd.nextRange.left) <= 0
                THEN cd.thisRange.left ELSE cd.nextRange.left
        right == IF Compare(cd.thisRange.right, cd.nextRange.right) >= 0
                 THEN cd.thisRange.right ELSE cd.nextRange.right
        hit(l) == LET r == getTablesInRange(lvcf[l].tables, left, right)
                  IN r.right > r.left
    IN [cd EXCEPT !.HasOverlap = \E l \in Levels : l >= cd.Level + 2 /\ hit(l)]

\* prepareCompactionDef.
prepareCompactionDef(cd, safeTS) ==
    [cd EXCEPT !.SafeTS = safeTS, !.Filter = NilFilter, !.MaxTableSize = MaxTableSize]

\* runCompactionDef, the merge branch once compactBuildTables has built e.
runCompactionDefBuilt(cd, e) ==
    [kind |-> "merge",
     comp |-> [Cf |-> cd.CF, Level |-> cd.Level,
               TopDeletes |-> getTblIDs(cd.Top),
               BottomDeletes |-> getTblIDs(cd.Bot),
               TableCreates |-> newTableCreates(e.results, cd.CF, cd.Level + 1)],
     cd |-> cd, idAlloc |-> e.nextID - 1]

\* compactBuildTables on the prepared cd: the executor, ids from id + 1 on.
compactBuildTables(cd, id) == runCompactionDefBuilt(cd, CompactTables(cd, id + 1))

\* runCompactionDef up to the ChangeSet: [kind, comp, cd, idAlloc], kind
\* naming the branch taken.
runCompactionDef(cd0, safeTS, id) ==
    IF moveDown(cd0)
    THEN [kind |-> "move",
          comp |-> [Cf |-> cd0.CF, Level |-> cd0.Level,
                    TopDeletes |-> getTblIDs(cd0.Top),
                    BottomDeletes |-> <<>>,
                    TableCreates |-> newTableCreates(cd0.Top, cd0.CF, cd0.Level + 1)],
          cd |-> cd0, idAlloc |-> id]
    ELSE compactBuildTables(prepareCompactionDef(cd0, safeTS), id)

\* newBuildHelper's iterator for cf: the L0 tables holding cf, newest first,
\* then the tables of level 1.
l0Iterator(l0, oldHandler, cf) ==
    LET runs == [i \in 1..Len(l0) |-> l0[i].cfs[cf]]
        iters == SelectSeq(runs, LAMBDA r : r # <<>>)
    IN MergeIterator(
           IF Len(oldHandler.tables) > 0
           THEN Append(iters, ConcatIterator(oldHandler.tables))
           ELSE iters)

\* compactShardMultiCFL0, one pass of the loop once the results e of cf are
\* built: its TableCreates and the ids of the old level 1 tables.
l0AddCF(acc, cf, oldHandler, e) ==
    [comp |-> [acc.comp EXCEPT
                 !.TableCreates = @ \o newTableCreates(e.results, cf, 1),
                 !.BottomDeletes = @ \o getTblIDs(oldHandler.tables)],
     idAlloc |-> e.nextID - 1]

\* compactShardMultiCFL0, the loop over the column families: acc is
\* [comp, idAlloc].
RECURSIVE l0BuildCFs(_, _, _, _, _)
l0BuildCFs(l0, lv, safeTS, cf, acc) ==
    IF cf >= numCFs THEN acc
    ELSE l0BuildCFs(l0, lv, safeTS, cf + 1,
             l0AddCF(acc, cf, lv[cf][1],
                 buildAll([safeTS |-> safeTS, filter |-> NilFilter,
                           MaxTableSize |-> MaxTableSize],
                          l0Iterator(l0, lv[cf][1], cf),
                          ExecInit(acc.idAlloc + 1))))

\* compactShardMultiCFL0 after the loop: the ids of the L0 tables.
l0TopDeletes(l0, built) ==
    [kind |-> "l0", cd |-> NewCompactDef(-1, 0),
     comp |-> [built.comp EXCEPT !.TopDeletes = getTblIDs(l0)],
     idAlloc |-> built.idAlloc]

\* compactShardMultiCFL0 up to the ChangeSet: [kind, cd, comp, idAlloc].
compactShardMultiCFL0(l0, lv, safeTS, id) ==
    l0TopDeletes(l0, l0BuildCFs(l0, lv, safeTS, 0, [comp |-> NoCompaction, idAlloc |-> id]))

\* CompactShard from y.Assert(ok) on.
CompactShardFilled(ft, none, lvcf, safeTS, id) ==
    IF ~ft.ok THEN [none EXCEPT !.kind = "panic"]
    ELSE runCompactionDef(setHasOverlapping(lvcf, ft.cd), safeTS, id)

\* CompactShard up to the ChangeSet: kind is "nil" when it returns before any
\* work, "panic" when it aborts the process, else "l0", "move" or "merge".
CompactShard(pri, l0, lv, safeTS, id) ==
    LET none == [kind |-> "nil", cd |-> NewCompactDef(pri.CF, pri.Level),
                 comp |-> NoCompaction, idAlloc |-> id]
    IN IF pri.CF = -1 THEN compactShardMultiCFL0(l0, lv, safeTS, id)
       ELSE IF Len(lv[pri.CF][pri.Level].tables) = 0 THEN none
       ELSE IF pri.Level + 1 > ShardMaxLevel THEN [none EXCEPT !.kind = "panic"]
       ELSE CompactShardFilled(
                fillTables(NewCompactDef(pri.CF, pri.Level),
                           lv[pri.CF][pri.Level].tables,
                           lv[pri.CF][pri.Level + 1].tables),
                none, lv[pri.CF], safeTS, id)

\* CompactShard from the shard lock on: split is isSplitting(), latest the
\* map's entry for the shard's ID, pas is IsPassive().  GetShard returns nil
\* for an ID the map does not hold, and reading latest.Ver then aborts the
\* process.
CompactShardLocked(split, latest, pas, pri, l0, lv, safeTS, id) ==
    IF split
    THEN [kind |-> "nil", cd |-> NewCompactDef(pri.CF, pri.Level),
          comp |-> NoCompaction, idAlloc |-> id]
    ELSE IF ~latest.present
    THEN [kind |-> "panic", cd |-> NewCompactDef(pri.CF, pri.Level),
          comp |-> NoCompaction, idAlloc |-> id]
    ELSE IF latest.Ver # ShardVer \/ pas
    THEN [kind |-> "nil", cd |-> NewCompactDef(pri.CF, pri.Level),
          comp |-> NoCompaction, idAlloc |-> id]
    ELSE CompactShard(pri, l0, lv, safeTS, id)

\* sortTables: by Smallest, ascending.
RECURSIVE sortTables(_)
sortTables(tables) ==
    IF tables = <<>> THEN <<>>
    ELSE LET i == CHOOSE x \in 1..Len(tables) :
                      \A y \in 1..Len(tables) :
                          \/ Compare(Smallest(tables[x]), Smallest(tables[y])) < 0
                          \/ (Compare(Smallest(tables[x]), Smallest(tables[y])) = 0 /\ x <= y)
         IN <<tables[i]>> \o
            sortTables(SubSeq(tables, 1, i - 1) \o SubSeq(tables, i + 1, Len(tables)))

\* assertTablesOrder: TRUE when it returns, FALSE when it panics.
assertTablesOrder(level, tables) ==
    \/ level = 0
    \/ \A i \in 1..(Len(tables) - 1) :
        ~ \/ Compare(Smallest(tables[i]), Biggest(tables[i])) > 0
          \/ Compare(Smallest(tables[i]), Smallest(tables[i + 1])) >= 0
          \/ Compare(Biggest(tables[i]), Biggest(tables[i + 1])) >= 0

SeqToSet(s) == {s[i] : i \in 1..Len(s)}

keptTables_None(tables, delIDs) == <<>>

\* compactionUpdateLevelHandler, second loop: the old tables that stay.
keptTables(tables, delIDs) ==
    SelectSeq(tables, LAMBDA t : t.id \notin SeqToSet(delIDs))

\* compactionUpdateLevelHandler from sortTables on: the handler of the sorted
\* tables is published unless assertTablesOrder panics.
casLevelHandler(lv, cf, level, tables, del) ==
    IF assertTablesOrder(level, tables)
    THEN [lv |-> [lv EXCEPT ![cf][level] =
                     [tables |-> tables, totalSize |-> sumTableSize(tables)]],
          del |-> del, panic |-> FALSE]
    ELSE [lv |-> lv, del |-> del, panic |-> TRUE]

\* compactionUpdateLevelHandler: [lv, del, panic]; del is the deletions map
\* as the set of its ids.
compactionUpdateLevelHandler(lv, cf, level, creates, delIDs, del) ==
    LET oldLevel == lv[cf][level]
        mine == SelectSeq(creates, LAMBDA c : c.CF = cf)
        opened == [i \in 1..Len(mine) |-> [id |-> mine[i].ID, recs |-> mine[i].file]]
        deleted == {t.id : t \in {x \in SeqToSet(oldLevel.tables) : x.id \in SeqToSet(delIDs)}}
    IN casLevelHandler(lv, cf, level,
                       sortTables(opened \o keptTables(oldLevel.tables, delIDs)),
                       del \cup deleted)

\* applyCompaction for Level 0, the loop over the column families.
RECURSIVE applyL0CFs(_, _, _)
applyL0CFs(comp, cf, st) ==
    IF cf >= numCFs \/ st.panic THEN st
    ELSE applyL0CFs(comp, cf + 1,
             compactionUpdateLevelHandler(st.lv, cf, 1, comp.TableCreates,
                                          comp.BottomDeletes, st.del))

\* atomicRemoveL0: the pool without its cnt oldest tables; it panics on a
\* pool of fewer.
atomicRemoveL0(l0, cnt) ==
    IF cnt > Len(l0) THEN [l0 |-> l0, panic |-> TRUE]
    ELSE [l0 |-> SubSeq(l0, 1, Len(l0) - cnt), panic |-> FALSE]

\* Manifest.writeChangeSet: errDupChange for a ChangeSet already written.
isDuplicatedChange(written, seq) == seq \in written

\* applyCompaction, Level 0, after the loop: atomicRemoveL0 of the pool.
installL0(l0, comp, st) ==
    IF st.panic THEN [l0 |-> l0, lv |-> st.lv, del |-> {}, panic |-> TRUE]
    ELSE LET r == atomicRemoveL0(l0, Len(comp.TopDeletes))
         IN [l0 |-> r.l0, lv |-> st.lv,
             del |-> IF r.panic THEN {} ELSE st.del, panic |-> r.panic]

\* applyCompaction, Level >= 1, its end: what guard.Delete is given.
installCollect(l0, b) ==
    [l0 |-> l0, lv |-> b.lv, del |-> IF b.panic THEN {} ELSE b.del, panic |-> b.panic]

\* applyCompaction, Level >= 1, after the handler of Level is replaced: the
\* created ids leave the deletions, then the handler of Level+1 is replaced.
installNextLevel(l0, comp, a) ==
    IF a.panic THEN [l0 |-> l0, lv |-> a.lv, del |-> {}, panic |-> TRUE]
    ELSE installCollect(l0,
             compactionUpdateLevelHandler(
                 a.lv, comp.Cf, comp.Level + 1, comp.TableCreates, comp.BottomDeletes,
                 a.del \ {comp.TableCreates[i].ID : i \in 1..Len(comp.TableCreates)}))

\* applyCompaction after the manifest has taken the ChangeSet:
\* [l0, lv, del, panic], del being what guard.Delete is given.
installCompaction(l0, lv, comp) ==
    IF comp.Level = 0
    THEN installL0(l0, comp,
                   applyL0CFs(comp, 0, [lv |-> lv, del |-> {}, panic |-> FALSE]))
    ELSE installNextLevel(l0, comp,
             compactionUpdateLevelHandler(lv, comp.Cf, comp.Level, <<>>,
                                          comp.TopDeletes, {}))

\* ------------------------------------------------------------ point lookups
\* Table.Get on a sorted run: the newest version of key at or below version,
\* as a sequence of one ValueStruct, or the empty sequence for an invalid one.
RECURSIVE tableGet(_, _, _)
tableGet(recs, key, version) ==
    IF recs = <<>> THEN <<>>
    ELSE IF Head(recs).uk = key /\ Head(recs).ver <= version THEN <<Head(recs)>>
    ELSE tableGet(Tail(recs), key, version)

\* levelHandler.get: the one table of the level whose range can hold key, the
\* first whose biggest user key is at or after it.
RECURSIVE levelGet(_, _, _)
levelGet(h, key, version) ==
    IF h.tables = <<>> THEN <<>>
    ELSE IF Biggest(Head(h.tables)).uk >= key
    THEN tableGet(Head(h.tables).recs, key, version)
    ELSE levelGet([h EXCEPT !.tables = Tail(@)], key, version)

\* SnapAccess.getValue, the loop over the L0 tables of the snapshot.
RECURSIVE l0Get(_, _, _, _)
l0Get(l0, cf, key, version) ==
    IF l0 = <<>> THEN <<>>
    ELSE LET v == tableGet(Head(l0).cfs[cf], key, version)
         IN IF v # <<>> THEN v ELSE l0Get(Tail(l0), cf, key, version)

\* SnapAccess.getValue, the loop over the levels from level i on, every
\* level read from the same hierarchy lvcf.
RECURSIVE levelsGet(_, _, _, _)
levelsGet(lvcf, i, key, version) ==
    IF i > ShardMaxLevel THEN <<>>
    ELSE IF Len(lvcf[i].tables) = 0 THEN levelsGet(lvcf, i + 1, key, version)
    ELSE LET v == levelGet(lvcf[i], key, version)
         IN IF v # <<>> THEN v ELSE levelsGet(lvcf, i + 1, key, version)

\* SnapAccess.getValue on a shard without mem-tables whose hierarchy does not
\* change during the call.
getValue(l0, lv, cf, key, version) ==
    LET v == l0Get(l0, cf, key, version)
    IN IF v # <<>> THEN v ELSE levelsGet(lv[cf], 1, key, version)

\* SnapAccess.Get: the item of a valid ValueStruct that is no delete-marker,
\* the empty sequence for ErrKeyNotFound.
Get(vs) ==
    IF vs = <<>> THEN <<>>
    ELSE IF isDeleted(vs[1].meta) THEN <<>>
    ELSE <<[ver |-> vs[1].ver, meta |-> vs[1].meta, userMeta |-> vs[1].um,
            val |-> vs[1].val]>>

\* ------------------------------------------------------------------ state
VARIABLES
    xpc,            \* executor check: "in" before a run, "ct" / "l0" after one
    xcd,            \* executor check: the job definition drawn as input
    xres,           \* executor check: the executor's final loop state
    l0Tbls,         \* shard.l0s: the L0 tables, newest first
    levels,         \* shard.cfs[cf].levels[level]: the installed levelHandlers
    compacting,     \* shard.compacting
    mangedSafeTS,   \* sdb.mangedSafeTS
    commitTS,       \* the version of the last flushed write
    idAlloc,        \* sdb.idAlloc: the last file id handed out
    worker,         \* the goroutine of the dispatch loop's round: [pc, job]
    jobs,           \* history: per dispatched job its priority, CompactDef, ChangeSet
                    \* and the watermark it read
    emitted,        \* the jobs whose ChangeSet the MetaChangeListener was given
    manifest,       \* the ChangeSets the manifest has written, by job
    reclaimed,      \* the table ids given to guard.Delete
    panicked,       \* the process has aborted
    listener,       \* sdb.metaChangeListener != nil
    inflight,       \* history: the jobs dispatched and neither installed nor dropped
    rd,             \* read check: the point lookup in progress
    ap,             \* read check: the install in progress
    appliers,       \* install check: the calls of applyCompaction in progress
    handlerGen,     \* install check: per level slot, how often it was swapped
    estimatedSize,  \* install check: what addEstimatedSize has added, in records
    splitting,      \* shard.isSplitting()
    passive,        \* shard.IsPassive()
    shardMap,       \* the engine's shardMap entry of the shard's ID: [present, Ver]
    loop,           \* loop check: runShardInternalCompactionLoop's position and locals
    shards,         \* loop check: per shard of the map its score, flags and lock
    gos,            \* loop check: per shard the goroutine started on it
    closed,         \* loop check: the closer has been signalled
    updaters,       \* watermark check: the calls of UpdateMangedSafeTs in progress
    l0job,          \* watermark check: compactShardMultiCFL0 in progress
    tpc,            \* table check: "in" before a run, then the function run
    tin,            \* table check: the level and table sequences drawn as input
    tres,           \* table check: what the function returned
    splitFiles,     \* split check: applySplitFiles' position and its ChangeSet
    snapApp,        \* snapshot applier check: the snapApplier and what next returned
    snapRun         \* snapshot runner check: the snapRunner's counters and tasks

execVars == <<xpc, xcd, xres>>

shardVars == <<l0Tbls, levels, compacting, mangedSafeTS, commitTS, idAlloc, worker,
               jobs, emitted, manifest, reclaimed, panicked, listener, inflight>>

readVars == <<rd, ap>>

installVars == <<appliers, handlerGen, estimatedSize>>

lifeVars == <<splitting, passive, shardMap>>

loopVars == <<loop, shards, gos, closed>>

waterVars == <<updaters, l0job>>

tableVars == <<tpc, tin, tres>>

lateVars == <<splitFiles, snapApp, snapRun>>

moreVars == <<loopVars, waterVars, tableVars, lateVars>>

vars == <<execVars, shardVars, readVars, installVars, lifeVars, moreVars>>

NoWorker == [pc |-> "none", job |-> 0]

\* The variables of a check that is not running.
ExecIdle ==
    /\ xpc = "off"
    /\ xcd = NewCompactDef(0, 0)
    /\ xres = ExecInit(0)

ReadIdle ==
    /\ rd = [pc |-> "off", cf |-> 0, key |-> 0, version |-> 0, level |-> 0, vs |-> <<>>]
    /\ ap = [pc |-> "off", comp |-> NoCompaction, del |-> {}, pre |-> <<>>]

SchedIdle ==
    /\ compacting = FALSE
    /\ worker = NoWorker
    /\ jobs = <<>>
    /\ emitted = {}
    /\ manifest = {}
    /\ reclaimed = {}
    /\ panicked = FALSE
    /\ inflight = {}

\* No call of applyCompaction is being stepped through.
InstallIdle ==
    /\ appliers = <<>>
    /\ handlerGen = [cf \in CFs |-> [l \in Levels |-> 0]]
    /\ estimatedSize = 0

\* The shard is active, not splitting, and the one registered under its ID.
LifeIdle ==
    /\ splitting = FALSE
    /\ passive = FALSE
    /\ shardMap = [present |-> TRUE, Ver |-> ShardVer]

NoL0Job ==
    [pc |-> "off", cf |-> 0, l0 |-> <<>>, safeTS |-> <<>>,
     acc |-> [comp |-> NoCompaction, idAlloc |-> 0]]

LoopIdle ==
    /\ loop = [pc |-> "off", priorities |-> <<>>, i |-> 0, running |-> 0, done |-> 0]
    /\ shards = <<>>
    /\ gos = <<>>
    /\ closed = FALSE

WaterIdle ==
    /\ updaters = [init |-> 0, call |-> <<>>]
    /\ l0job = NoL0Job

TableIdle ==
    /\ tpc = "off"
    /\ tin = [level |-> 0, this |-> <<>>, next |-> <<>>]
    /\ tres = [ok |-> TRUE]

SplitIdle == splitFiles = [pc |-> "off"]

SnapAppIdle == snapApp = [pc |-> "off"]

SnapRunIdle == snapRun = [pc |-> "off"]

LateIdle == SplitIdle /\ SnapAppIdle /\ SnapRunIdle

\* The variables of the checks added beside the engine.
MoreIdle == LoopIdle /\ WaterIdle /\ TableIdle /\ LateIdle

\* ------------------------------------------------------- shards to start on
mkLevel(tables) == [tables |-> tables, totalSize |-> sumTableSize(tables)]

EmptyLevels == [cf \in CFs |-> [l \in Levels |-> newLevelHandler]]

\* Column family 0 with the given tables on levels 1, 2 and 3.
LevelsOf(l1, l2, l3) ==
    [EmptyLevels EXCEPT ![0] = [l \in Levels |->
        IF l = 1 THEN mkLevel(l1)
        ELSE IF l = 2 THEN mkLevel(l2)
        ELSE IF l = 3 THEN mkLevel(l3)
        ELSE newLevelHandler]]

L0Table(id, cf, recs) == [id |-> id, cfs |-> [c \in CFs |-> IF c = cf THEN recs ELSE <<>>]]

\* An empty shard; one L0 table over a one-table level 1; a level 1 table
\* whose range holds a level 2 table but none of its keys; a delete-marker on
\* level 1 over older versions on levels 2 and 3 beside an unrelated table;
\* two L0 tables with delete-markers on the outer keys over a level 2 table;
\* two L0 tables over empty levels.
InitLayouts ==
    {[l0 |-> <<>>, lv |-> EmptyLevels, idAlloc |-> 0, commitTS |-> 1],
     [l0 |-> <<L0Table(2, 0, <<PutRec(2, 1)>>)>>,
      lv |-> LevelsOf(<<[id |-> 1, recs |-> <<PutRec(1, 1)>>]>>, <<>>, <<>>),
      idAlloc |-> 2, commitTS |-> 1],
     [l0 |-> <<>>,
      lv |-> LevelsOf(<<[id |-> 2, recs |-> <<PutRec(1, 1), PutRec(MaxKey, 1)>>]>>,
                      <<[id |-> 1, recs |-> <<PutRec(2, 1), PutRec(3, 1)>>]>>, <<>>),
      idAlloc |-> 2, commitTS |-> 1],
     [l0 |-> <<>>,
      lv |-> LevelsOf(<<[id |-> 4, recs |-> <<DelRec(1, 3)>>]>>,
                      <<[id |-> 2, recs |-> <<PutRec(1, 2)>>],
                        [id |-> 3, recs |-> <<PutRec(3, 1), PutRec(MaxKey, 1)>>]>>,
                      <<[id |-> 1, recs |-> <<PutRec(1, 1)>>]>>),
      idAlloc |-> 4, commitTS |-> 3],
     [l0 |-> <<L0Table(3, 0, <<PutRec(3, 2), DelRec(MaxKey, 2)>>),
               L0Table(2, 0, <<DelRec(1, 2), PutRec(2, 2)>>)>>,
      lv |-> LevelsOf(<<>>, <<[id |-> 1, recs |-> <<PutRec(2, 1)>>]>>, <<>>),
      idAlloc |-> 3, commitTS |-> 2],
     [l0 |-> <<L0Table(2, 0, <<PutRec(2, 1)>>), L0Table(1, 0, <<PutRec(1, 1)>>)>>,
      lv |-> EmptyLevels, idAlloc |-> 2, commitTS |-> 1]}

\* What one flush may write at version ts: in column family 0 a put of one
\* key, puts of the two outer keys or a delete of key 2; or a put of key 1 in
\* column family 1.
FlushSet(id, ts) ==
    {L0Table(id, 0, SortRecs({PutRec(k, ts) : k \in K}))
        : K \in {{k} : k \in ShardKeys} \cup {{1, MaxKey}}}
    \cup {L0Table(id, 0, <<DelRec(2, ts)>>), L0Table(id, 1, <<PutRec(1, ts)>>)}

\* --------------------------------------------- inputs of the executor check
\* The record sets of at most MaxRecs records, one per (user key, version).
RecSets ==
    UNION {{ {IF s \in D THEN DelRec(s[1], s[2]) ELSE PutRec(s[1], s[2]) : s \in P}
             : D \in SUBSET P}
           : P \in {Q \in SUBSET (UserKeys \X Versions) : Cardinality(Q) <= MaxRecs}}

\* The filters drawn: none, or one decision for user key 1 and the same or
\* Keep for the other keys.
FilterSet ==
    {NilFilter} \cup
    {[on |-> TRUE, d |-> [k \in UserKeys |-> IF k = 1 \/ same THEN d1 ELSE DecisionKeep]]
        : d1 \in Decisions, same \in BOOLEAN}

\* A table of level+1 that fillTables skipped: two versions of user key k.
SkippedTable(k) == [id |-> 2 + k, recs |-> <<PutRec(k, 2), PutRec(k, 1)>>]

RECURSIVE SkippedOf(_)
SkippedOf(K) ==
    IF K = {} THEN <<>>
    ELSE LET k == CHOOSE x \in K : \A o \in K : x <= o
         IN <<SkippedTable(k)>> \o SkippedOf(K \ {k})

TableOf(id, S) == IF S = {} THEN <<>> ELSE <<[id |-> id, recs |-> SortRecs(S)]>>

FirstOutputID == NumKeys + 3

\* A job definition drawn as input: the newer versions of every key in one
\* top table, version 1 in one bottom table, skipped tables on the keys K.
ExecInput(S, K, ts, f, ho, mts) ==
    [CF |-> 0, Level |-> 1,
     Top |-> TableOf(1, {r \in S : r.ver > 1}),
     Bot |-> TableOf(2, {r \in S : r.ver = 1}),
     SkippedTbls |-> SkippedOf(K),
     SafeTS |-> ts, Filter |-> f, HasOverlap |-> ho,
     MaxTableSize |-> mts * RecSize]

\* ------------------------------------------------------ the executor check
\* The executors as functions of their input: every job definition within the
\* bounds, then one run of CompactTables or of the L0->L1 build loop on it.
ExecStart ==
    /\ ReadIdle
    /\ SchedIdle
    /\ InstallIdle
    /\ LifeIdle
    /\ MoreIdle
    /\ l0Tbls = <<>> /\ levels = EmptyLevels /\ mangedSafeTS = 0
    /\ commitTS = 0 /\ idAlloc = 0 /\ listener = FALSE
    /\ xpc = "in"
    /\ xres = ExecInit(FirstOutputID)
    /\ \E S \in RecSets :
       \E K \in SUBSET (UserKeys \ {r.uk : r \in S}) :
       \E ts \in 0..MaxVer, f \in FilterSet, ho \in BOOLEAN, mts \in {1, MaxRecs} :
           xcd = ExecInput(S, K, ts, f, ho, mts)

\* The helper newBuildHelper makes for the job's CF, on the same merged run.
HelperOf(cd) ==
    [safeTS |-> cd.SafeTS, filter |-> cd.Filter, MaxTableSize |-> cd.MaxTableSize]

RunCompactTables ==
    /\ xpc = "in"
    /\ xpc' = "ct"
    /\ xres' = CompactTables(xcd, FirstOutputID)
    /\ UNCHANGED <<xcd, shardVars, readVars, installVars, lifeVars, moreVars>>

RunBuildL0 ==
    /\ xpc = "in"
    /\ xcd.SkippedTbls = <<>>
    /\ xpc' = "l0"
    /\ xres' = buildAll(HelperOf(xcd), buildIterator(xcd), ExecInit(FirstOutputID))
    /\ UNCHANGED <<xcd, shardVars, readVars, installVars, lifeVars, moreVars>>

ExecNext == RunCompactTables \/ RunBuildL0

SpecExec == ExecStart /\ [][ExecNext]_vars

\* -------------------------------------------------------------- the engine
\* The state after the shard is loaded: one of the starting shards, with or
\* without a MetaChangeListener, the dispatch loop about to plan.
Init ==
    /\ ExecIdle
    /\ ReadIdle
    /\ SchedIdle
    /\ InstallIdle
    /\ LifeIdle
    /\ MoreIdle
    /\ mangedSafeTS = 0
    /\ listener \in BOOLEAN
    /\ \E lay \in InitLayouts :
        /\ l0Tbls = lay.l0
        /\ levels = lay.lv
        /\ idAlloc = lay.idAlloc
        /\ commitTS = lay.commitTS

\* applyFlush of the L0 table t: atomicAddL0.
FlushTable(t) ==
    /\ ~panicked
    /\ commitTS < MaxVer
    /\ l0Tbls' = <<t>> \o l0Tbls
    /\ idAlloc' = idAlloc + 1
    /\ commitTS' = commitTS + 1
    /\ UNCHANGED <<levels, compacting, mangedSafeTS, worker, jobs, emitted, manifest,
                   reclaimed, panicked, listener, inflight, execVars, readVars, installVars, lifeVars, moreVars>>

\* A mem-table flush installed by applyFlush: atomicAddL0 of a new L0 table.
Flush == \E t \in FlushSet(idAlloc + 1, commitTS + 1) : FlushTable(t)

\* UpdateMangedSafeTs(commitTS): the watermark moves up to the last write.
UpdateMangedSafeTs ==
    /\ ~panicked
    /\ mangedSafeTS < commitTS
    /\ mangedSafeTS' = commitTS
    /\ UNCHANGED <<l0Tbls, levels, compacting, commitTS, idAlloc, worker, jobs, emitted,
                   manifest, reclaimed, panicked, listener, inflight, execVars, readVars, installVars, lifeVars, moreVars>>

\* One round of runShardInternalCompactionLoop that finds a priority: the
\* shard is marked compacting and a goroutine started on it.  The loop then
\* waits for the goroutine, so the next round starts from worker.pc = "none".
Dispatch ==
    /\ ~panicked
    /\ worker.pc = "none"
    /\ Len(jobs) < MaxJobs
    /\ LET priorities == GetCompactionPriorities(
                             shardMap.present /\ shardMap.Ver = ShardVer,
                             passive, compacting, l0Tbls, levels)
       IN /\ 0 < NumCompactors /\ 0 < Len(priorities)
          /\ jobs' = Append(jobs, [pri |-> priorities[1], kind |-> "planned",
                                   cd |-> NewCompactDef(0, 0), comp |-> NoCompaction,
                                   safeTS |-> 0])
    /\ compacting' = TRUE
    /\ worker' = [pc |-> "compact", job |-> Len(jobs) + 1]
    /\ inflight' = inflight \cup {Len(jobs) + 1}
    /\ UNCHANGED <<l0Tbls, levels, mangedSafeTS, commitTS, idAlloc, emitted, manifest,
                   reclaimed, panicked, listener, execVars, readVars, installVars, lifeVars, moreVars>>

\* applyCompaction once the manifest has written the ChangeSet: the outcome r
\* of the install becomes the shard's state.
ApplyInstalled(seq, r) ==
    /\ manifest' = manifest \cup {seq}
    /\ l0Tbls' = r.l0
    /\ levels' = r.lv
    /\ reclaimed' = reclaimed \cup r.del
    /\ panicked' = r.panic

ApplyCompaction_NoDupReturn(seq, comp) ==
    /\ compacting' = FALSE
    /\ inflight' = inflight \ {seq}
    /\ ApplyInstalled(seq, installCompaction(l0Tbls, levels, comp))

\* applyCompaction(seq, comp) on the shard: the deferred markCompacting(false)
\* runs on every return, the one for errDupChange included.
ApplyCompaction(seq, comp) ==
    /\ compacting' = FALSE
    /\ inflight' = inflight \ {seq}
    /\ IF isDuplicatedChange(manifest, seq)
       THEN UNCHANGED <<l0Tbls, levels, manifest, reclaimed, panicked>>
       ELSE ApplyInstalled(seq, installCompaction(l0Tbls, levels, comp))

\* CompactShard returned r for the job: the job is dropped, or its ChangeSet
\* is given to the listener, or applied here.
WorkerCompacted(job, r) ==
    /\ jobs' = [jobs EXCEPT ![job] = [@ EXCEPT !.kind = r.kind, !.cd = r.cd,
                                                !.comp = r.comp,
                                                !.safeTS = mangedSafeTS]]
    /\ idAlloc' = r.idAlloc
    /\ worker' = [worker EXCEPT !.pc = "finish"]
    /\ IF r.kind = "panic"
       THEN /\ panicked' = TRUE
            /\ UNCHANGED <<l0Tbls, levels, compacting, emitted, manifest, reclaimed,
                           inflight>>
       ELSE IF r.kind = "nil"
       THEN /\ inflight' = inflight \ {job}
            /\ UNCHANGED <<l0Tbls, levels, compacting, emitted, manifest, reclaimed,
                           panicked>>
       ELSE IF listener
       THEN /\ emitted' = emitted \cup {job}
            /\ UNCHANGED <<l0Tbls, levels, compacting, manifest, reclaimed,
                           panicked, inflight>>
       ELSE /\ ApplyCompaction(job, r.comp)
            /\ UNCHANGED emitted

\* The goroutine's call of CompactShard on the priority it was started with.
WorkerCompact ==
    /\ ~panicked
    /\ worker.pc = "compact"
    /\ WorkerCompacted(worker.job,
           CompactShardLocked(splitting, shardMap, passive, jobs[worker.job].pri,
                              l0Tbls, levels, mangedSafeTS, idAlloc))
    /\ UNCHANGED <<mangedSafeTS, commitTS, listener, execVars, readVars, installVars, lifeVars, moreVars>>

\* The goroutine after CompactShard returned nil: markCompacting(false) when
\* there is no listener, then wg.Done.
WorkerFinish ==
    /\ ~panicked
    /\ worker.pc = "finish"
    /\ compacting' = IF ~listener THEN FALSE ELSE compacting
    /\ worker' = NoWorker
    /\ UNCHANGED <<l0Tbls, levels, mangedSafeTS, commitTS, idAlloc, jobs, emitted,
                   manifest, reclaimed, panicked, listener, inflight, execVars, readVars, installVars, lifeVars, moreVars>>

\* ApplyChangeSet of the compaction ChangeSet seq: GetShard returns nil for
\* an ID the map does not hold and reading shard.Ver then aborts the process;
\* for a shard of another Ver it returns errShardNotMatch.
ApplyChangeSetOf(seq) ==
    IF ~shardMap.present
    THEN /\ panicked' = TRUE
         /\ UNCHANGED <<l0Tbls, levels, compacting, manifest, reclaimed, inflight>>
    ELSE IF shardMap.Ver # ShardVer
    THEN UNCHANGED <<l0Tbls, levels, compacting, manifest, reclaimed, inflight, panicked>>
    ELSE ApplyCompaction(seq, jobs[seq].comp)

\* ApplyChangeSet of a compaction ChangeSet the listener was given: its first
\* delivery or a replay.
ApplyChangeSet ==
    /\ ~panicked
    /\ \E seq \in emitted : ApplyChangeSetOf(seq)
    /\ UNCHANGED <<mangedSafeTS, commitTS, idAlloc, worker, jobs, emitted, listener,
                   execVars, readVars, installVars, lifeVars, moreVars>>

Next ==
    \/ Flush
    \/ UpdateMangedSafeTs
    \/ Dispatch
    \/ WorkerCompact
    \/ WorkerFinish
    \/ ApplyChangeSet

Spec == Init /\ [][Next]_vars

\* ---------------------------------------------------------- the read check
\* A point lookup beside the install of one job of a level >= 1: the job is
\* the one CompactShard builds on a starting shard at some watermark, the
\* lookup is of any key at any version from the watermark up.
ReadStartOn(lay, ts, cf, key, version, r) ==
    /\ version >= ts
    /\ r.kind \in {"move", "merge"}
    /\ l0Tbls = lay.l0
    /\ levels = lay.lv
    /\ idAlloc = r.idAlloc
    /\ commitTS = lay.commitTS
    /\ mangedSafeTS = ts
    /\ ap = [pc |-> "this", comp |-> r.comp, del |-> {}, pre |-> lay.lv]
    /\ rd = [pc |-> "l0", cf |-> cf, key |-> key, version |-> version,
             level |-> 1, vs |-> <<>>]

ReadStartPri(lay, ts, cf, key, version, pri) ==
    /\ pri.Score.n > pri.Score.d
    /\ ReadStartOn(lay, ts, cf, key, version,
                   CompactShard(pri, lay.l0, lay.lv, ts, lay.idAlloc))

ReadStart ==
    /\ ExecIdle
    /\ SchedIdle
    /\ InstallIdle
    /\ LifeIdle
    /\ MoreIdle
    /\ listener = FALSE
    /\ \E lay \in InitLayouts :
       \E ts \in 0..lay.commitTS, cf \in CFs, key \in ShardKeys, version \in 1..MaxVer :
           ReadStartPri(lay, ts, cf, key, version, getCompactionPriority(lay.l0, lay.lv))

\* applyCompaction, Level >= 1: the levelHandler of Level is replaced.
ApplyThisLevel ==
    /\ ap.pc = "this"
    /\ LET a == compactionUpdateLevelHandler(levels, ap.comp.Cf, ap.comp.Level, <<>>,
                                             ap.comp.TopDeletes, {})
       IN /\ levels' = a.lv
          /\ ap' = [ap EXCEPT !.pc = "next",
                              !.del = a.del \ {ap.comp.TableCreates[i].ID
                                                 : i \in 1..Len(ap.comp.TableCreates)}]
    /\ UNCHANGED <<l0Tbls, compacting, mangedSafeTS, commitTS, idAlloc, worker, jobs,
                   emitted, manifest, reclaimed, panicked, listener, inflight, rd,
                   execVars, installVars, lifeVars, moreVars>>

\* applyCompaction, Level >= 1: the levelHandler of Level+1 is replaced and
\* the deleted tables are given to guard.Delete.
ApplyNextLevel ==
    /\ ap.pc = "next"
    /\ LET b == compactionUpdateLevelHandler(levels, ap.comp.Cf, ap.comp.Level + 1,
                                             ap.comp.TableCreates,
                                             ap.comp.BottomDeletes, ap.del)
       IN /\ levels' = b.lv
          /\ reclaimed' = reclaimed \cup b.del
          /\ ap' = [ap EXCEPT !.pc = "done", !.del = b.del]
    /\ UNCHANGED <<l0Tbls, compacting, mangedSafeTS, commitTS, idAlloc, worker, jobs,
                   emitted, manifest, panicked, listener, inflight, rd, execVars, installVars, lifeVars, moreVars>>

\* getValue, the loop over the L0 tables the snapshot holds.
ReadL0 ==
    /\ rd.pc = "l0"
    /\ LET v == l0Get(l0Tbls, rd.cf, rd.key, rd.version)
       IN rd' = IF v # <<>> THEN [rd EXCEPT !.pc = "done", !.vs = v]
                ELSE [rd EXCEPT !.pc = "levels"]
    /\ UNCHANGED <<shardVars, ap, execVars, installVars, lifeVars, moreVars>>

\* getValue, one pass of the loop over the levels: getLevelHandler(i) and
\* the lookup in the handler it returned.
ReadLevel ==
    /\ rd.pc = "levels"
    /\ LET level == levels[rd.cf][rd.level]
           v == IF Len(level.tables) = 0 THEN <<>>
                ELSE levelGet(level, rd.key, rd.version)
       IN rd' = IF v # <<>> THEN [rd EXCEPT !.pc = "done", !.vs = v]
                ELSE IF rd.level = ShardMaxLevel THEN [rd EXCEPT !.pc = "done"]
                ELSE [rd EXCEPT !.level = @ + 1]
    /\ UNCHANGED <<shardVars, ap, execVars, installVars, lifeVars, moreVars>>

ReadNext == ApplyThisLevel \/ ApplyNextLevel \/ ReadL0 \/ ReadLevel

SpecRead == ReadStart /\ [][ReadNext]_vars

\* -------------------------------------------------------- the install check
\* applyCompaction step by step, for engines whose MetaChangeListener hands
\* the ChangeSets back through ApplyChangeSet on goroutines of its own: the
\* calls of compactionUpdateLevelHandler of one ChangeSet are numbered from 0,
\* the column families for Level 0, else Level and then Level+1.
numCalls(comp) == IF comp.Level = 0 THEN numCFs ELSE 2

callCF(comp, k) == IF comp.Level = 0 THEN k ELSE comp.Cf

callLevel(comp, k) == IF comp.Level = 0 THEN 1 ELSE comp.Level + k

callCreates(comp, k) == IF comp.Level > 0 /\ k = 0 THEN <<>> ELSE comp.TableCreates

callDelIDs(comp, k) ==
    IF comp.Level > 0 /\ k = 0 THEN comp.TopDeletes ELSE comp.BottomDeletes

\* The deletions the call starts with: before the call for Level+1 the
\* created ids are taken out.
callDel(comp, k, del) ==
    IF comp.Level > 0 /\ k = 1
    THEN del \ {comp.TableCreates[i].ID : i \in 1..Len(comp.TableCreates)}
    ELSE del

\* An applier is one call of applyCompaction past the manifest write: where
\* it is, the handler it loaded (by the slot's swap count) and the one it
\* built, its deletions, and what it has done so far: the calls whose
\* casLevelHandler returned false, the slots it replaced, what it passed to
\* addEstimatedSize, what it gave to guard.Delete, whether it returned an error.
NewApplier ==
    [pc |-> "load", call |-> 0, gen |-> 0, new |-> newLevelHandler, oldSize |-> 0,
     del |-> {}, casFailed |-> {}, swapped |-> {}, adj |-> 0, handed |-> {},
     removedL0 |-> FALSE, err |-> FALSE]

\* The shards the install check starts on: two L0 tables of column family 0
\* over empty levels, and two L0 tables of one column family each.
InstallLayouts ==
    {[l0 |-> <<L0Table(2, 0, <<PutRec(2, 1)>>), L0Table(1, 0, <<PutRec(1, 1)>>)>>,
      lv |-> EmptyLevels, idAlloc |-> 2, commitTS |-> 1],
     [l0 |-> <<L0Table(2, 1, <<PutRec(1, 1)>>), L0Table(1, 0, <<PutRec(1, 1)>>)>>,
      lv |-> EmptyLevels, idAlloc |-> 2, commitTS |-> 1]}

\* The engine with a MetaChangeListener, after the shard is loaded.
InstallInit ==
    /\ ExecIdle
    /\ ReadIdle
    /\ SchedIdle
    /\ InstallIdle
    /\ LifeIdle
    /\ MoreIdle
    /\ mangedSafeTS = 0
    /\ listener = TRUE
    /\ \E lay \in InstallLayouts :
        /\ l0Tbls = lay.l0
        /\ levels = lay.lv
        /\ idAlloc = lay.idAlloc
        /\ commitTS = lay.commitTS

\* ApplyChangeSet of a compaction ChangeSet up to the manifest write: on
\* errDupChange it returns nil through the deferred markCompacting(false).
InstBegin ==
    /\ ~panicked
    /\ \E seq \in emitted :
        IF ~shardMap.present
        THEN /\ panicked' = TRUE
             /\ UNCHANGED <<compacting, manifest, appliers>>
        ELSE IF shardMap.Ver # ShardVer
        THEN UNCHANGED <<compacting, manifest, appliers, panicked>>
        ELSE IF isDuplicatedChange(manifest, seq)
        THEN /\ compacting' = FALSE
             /\ UNCHANGED <<manifest, appliers, panicked>>
        ELSE /\ manifest' = manifest \cup {seq}
             /\ appliers' = appliers @@ (seq :> NewApplier)
             /\ UNCHANGED <<compacting, panicked>>
    /\ UNCHANGED <<l0Tbls, levels, mangedSafeTS, commitTS, idAlloc, worker, jobs,
                   emitted, reclaimed, listener, inflight, handlerGen,
                   estimatedSize, execVars, readVars, lifeVars, moreVars>>

\* compactionUpdateLevelHandler up to assertTablesOrder, r being what it
\* built on the handler it loaded.
InstLoaded(seq, cf, level, r) ==
    IF r.panic
    THEN /\ panicked' = TRUE
         /\ UNCHANGED appliers
    ELSE /\ UNCHANGED panicked
         /\ appliers' = [appliers EXCEPT ![seq] =
                [@ EXCEPT !.pc = "cas", !.gen = handlerGen[cf][level],
                          !.new = r.lv[cf][level],
                          !.oldSize = levels[cf][level].totalSize,
                          !.del = r.del]]

InstLoadCall(seq, comp, k) ==
    InstLoaded(seq, callCF(comp, k), callLevel(comp, k),
               compactionUpdateLevelHandler(levels, callCF(comp, k), callLevel(comp, k),
                                            callCreates(comp, k), callDelIDs(comp, k),
                                            callDel(comp, k, appliers[seq].del)))

InstLoad ==
    /\ ~panicked
    /\ \E seq \in DOMAIN appliers :
        /\ appliers[seq].pc = "load"
        /\ InstLoadCall(seq, jobs[seq].comp, appliers[seq].call)
    /\ UNCHANGED <<l0Tbls, levels, compacting, mangedSafeTS, commitTS, idAlloc, worker,
                   jobs, emitted, manifest, reclaimed, listener, inflight, handlerGen,
                   estimatedSize, execVars, readVars, lifeVars, moreVars>>

\* compactionUpdateLevelHandler returns the error of opening one of the
\* created files of its column family; applyCompaction returns it through
\* the deferred markCompacting(false).
InstOpenError ==
    /\ ~panicked
    /\ \E seq \in DOMAIN appliers :
        /\ appliers[seq].pc = "load"
        /\ \E i \in 1..Len(callCreates(jobs[seq].comp, appliers[seq].call)) :
               callCreates(jobs[seq].comp, appliers[seq].call)[i].CF
                   = callCF(jobs[seq].comp, appliers[seq].call)
        /\ appliers' = [appliers EXCEPT ![seq] = [@ EXCEPT !.pc = "done", !.err = TRUE]]
        /\ inflight' = inflight \ {seq}
    /\ compacting' = FALSE
    /\ UNCHANGED <<l0Tbls, levels, mangedSafeTS, commitTS, idAlloc, worker, jobs,
                   emitted, manifest, reclaimed, panicked, listener, handlerGen,
                   estimatedSize, execVars, readVars, lifeVars, moreVars>>

\* casLevelHandler(level, oldLevel, newLevel), its result dropped, and
\* addEstimatedSize(newLevel.totalSize - oldLevel.totalSize): the slot takes
\* the new handler iff it still holds the one the call loaded.
InstCasAt(seq, a, cf, level, ok, last) ==
    /\ levels' = IF ok THEN [levels EXCEPT ![cf][level] = a.new] ELSE levels
    /\ handlerGen' = IF ok THEN [handlerGen EXCEPT ![cf][level] = @ + 1] ELSE handlerGen
    /\ estimatedSize' = estimatedSize + (a.new.totalSize - a.oldSize)
    /\ appliers' = [appliers EXCEPT ![seq] =
           [@ EXCEPT !.pc = IF last THEN "finish" ELSE "load",
                     !.call = @ + 1,
                     !.casFailed = IF ok THEN @ ELSE @ \cup {a.call},
                     !.swapped = IF ok THEN @ \cup {<<cf, level>>} ELSE @,
                     !.adj = @ + (a.new.totalSize - a.oldSize)]]

InstCasCall(seq, a, cf, level, last) ==
    InstCasAt(seq, a, cf, level, handlerGen[cf][level] = a.gen, last)

InstCas ==
    /\ ~panicked
    /\ \E seq \in DOMAIN appliers :
        /\ appliers[seq].pc = "cas"
        /\ InstCasCall(seq, appliers[seq],
                       callCF(jobs[seq].comp, appliers[seq].call),
                       callLevel(jobs[seq].comp, appliers[seq].call),
                       appliers[seq].call + 1 = numCalls(jobs[seq].comp))
    /\ UNCHANGED <<l0Tbls, compacting, mangedSafeTS, commitTS, idAlloc, worker, jobs,
                   emitted, manifest, reclaimed, panicked, listener, inflight,
                   execVars, readVars, lifeVars, moreVars>>

\* applyCompaction after its calls of compactionUpdateLevelHandler: for Level
\* 0 atomicRemoveL0 and addEstimatedSize of what it removed, r being its
\* outcome; then guard.Delete(del.collect()) and the return through the
\* deferred markCompacting(false).
InstFinished(seq, isL0, r) ==
    IF isL0 /\ r.panic
    THEN /\ panicked' = TRUE
         /\ UNCHANGED <<l0Tbls, estimatedSize, reclaimed, compacting, inflight, appliers>>
    ELSE /\ UNCHANGED panicked
         /\ l0Tbls' = IF isL0 THEN r.l0 ELSE l0Tbls
         /\ estimatedSize' = IF isL0
                             THEN estimatedSize - (l0TotalSize(l0Tbls) - l0TotalSize(r.l0))
                             ELSE estimatedSize
         /\ reclaimed' = reclaimed \cup appliers[seq].del
         /\ compacting' = FALSE
         /\ inflight' = inflight \ {seq}
         /\ appliers' = [appliers EXCEPT ![seq] =
                [@ EXCEPT !.pc = "done", !.handed = appliers[seq].del,
                          !.removedL0 = isL0,
                          !.adj = IF isL0
                                  THEN @ - (l0TotalSize(l0Tbls) - l0TotalSize(r.l0))
                                  ELSE @]]

InstFinish ==
    /\ ~panicked
    /\ \E seq \in DOMAIN appliers :
        /\ appliers[seq].pc = "finish"
        /\ InstFinished(seq, jobs[seq].comp.Level = 0,
                        atomicRemoveL0(l0Tbls, Len(jobs[seq].comp.TopDeletes)))
    /\ UNCHANGED <<levels, mangedSafeTS, commitTS, idAlloc, worker, jobs, emitted,
                   manifest, listener, handlerGen, execVars, readVars, lifeVars, moreVars>>

InstallNext ==
    \/ Dispatch
    \/ WorkerCompact
    \/ WorkerFinish
    \/ InstBegin
    \/ InstLoad
    \/ InstOpenError
    \/ InstCas
    \/ InstFinish

SpecInstall == InstallInit /\ [][InstallNext]_vars

\* ----------------------------------------------------------- the pool check
\* The installs step by step beside flushes: each flush adds an L0 table of
\* one put of key 1 in column family 0.
PoolFlush == FlushTable(L0Table(idAlloc + 1, 0, <<PutRec(1, commitTS + 1)>>))

PoolNext == PoolFlush \/ InstallNext

\* The engine with a MetaChangeListener on a shard of two L0 tables of
\* column family 0 over empty levels.
PoolInit ==
    /\ InstallInit
    /\ \A i \in 1..Len(l0Tbls) : l0Tbls[i].cfs[1] = <<>>

SpecPool == PoolInit /\ [][PoolNext]_vars

\* ------------------------------------------------------ the lifecycle check
\* The engine beside the events of the shard's life, each of which may fall
\* between the planning of a job and its execution.
\* The shard enters a split: isSplitting() holds from then on.
StartSplit ==
    /\ ~panicked
    /\ ~splitting
    /\ splitting' = TRUE
    /\ UNCHANGED <<passive, shardMap, shardVars, execVars, readVars, installVars, moreVars>>

\* The shard is made passive, or active again.
SetPassive ==
    /\ ~panicked
    /\ passive' = ~passive
    /\ UNCHANGED <<splitting, shardMap, shardVars, execVars, readVars, installVars, moreVars>>

\* RemoveShard: shardMap.Delete of the shard's ID.
RemoveShard ==
    /\ ~panicked
    /\ shardMap.present
    /\ shardMap' = [shardMap EXCEPT !.present = FALSE]
    /\ UNCHANGED <<splitting, passive, shardVars, execVars, readVars, installVars, moreVars>>

\* A Shard object of the next Ver is registered under the shard's ID.
ReplaceShard ==
    /\ ~panicked
    /\ shardMap = [present |-> TRUE, Ver |-> ShardVer]
    /\ shardMap' = [shardMap EXCEPT !.Ver = ShardVer + 1]
    /\ UNCHANGED <<splitting, passive, shardVars, execVars, readVars, installVars, moreVars>>

LifeNext ==
    \/ Dispatch
    \/ WorkerCompact
    \/ WorkerFinish
    \/ ApplyChangeSet
    \/ StartSplit
    \/ SetPassive
    \/ RemoveShard
    \/ ReplaceShard

\* The goroutine started for a job is scheduled until CompactShard returns:
\* weak fairness of WorkerCompact, which is enabled exactly while the
\* goroutine is about to call CompactShard and is disabled by its own step.
WorkerCompactFair == []<>~(~panicked /\ worker.pc = "compact")

\* The listener delivers the ChangeSet of job seq to ApplyChangeSet: weak
\* fairness of its first delivery, which is enabled exactly while the
\* ChangeSet was emitted, the manifest does not hold it and the map holds the
\* shard at the ChangeSet's Ver, and is disabled by its own step.
DeliverFair(seq) ==
    []<>~(/\ ~panicked
          /\ seq \in emitted \ manifest
          /\ shardMap = [present |-> TRUE, Ver |-> ShardVer])

\* The goroutine of a job runs to its end, and the listener delivers every
\* ChangeSet it was given.
SpecLife ==
    /\ Init
    /\ [][LifeNext]_vars
    /\ WF_vars(WorkerFinish)
    /\ WorkerCompactFair
    /\ \A seq \in 1..MaxJobs : DeliverFair(seq)

\* ----------------------------------------------------------- the loop check
\* runShardInternalCompactionLoop over a map of NumShards shards, each reduced
\* to what the loop and its goroutines read and write: the score that
\* getCompactionPriority gives it, its flags and its lock.
ShardIDs == 1..NumShards

\* The scores a shard of the map may have; only those above 1 are listed.
Scores == 1..MaxScore

NoGo == [pc |-> "none", err |-> FALSE]

\* GetCompactionPriorities before the sort: the shards that are listed.
ListedShards(sh) ==
    {s \in ShardIDs : sh[s].present /\ ~sh[s].passive /\ ~sh[s].compacting
                          /\ sh[s].score > 1}

\* GetCompactionPriorities: a CompactionPriority [Shard, Score] per listed
\* shard, in an order sort.Slice may leave them in, scores descending.
SortedPriorities(sh) ==
    {[i \in DOMAIN p |-> [Shard |-> p[i], Score |-> sh[p[i]].score]] :
        p \in {q \in [1..Cardinality(ListedShards(sh)) -> ListedShards(sh)] :
                 /\ \A i, j \in DOMAIN q : i # j => q[i] # q[j]
                 /\ \A i \in DOMAIN q :
                        i + 1 \in DOMAIN q => sh[q[i]].score >= sh[q[i + 1]].score}}

\* The engine with shards in its map, the loop about to plan its first round.
LoopStart(sh) ==
    /\ ExecIdle
    /\ ReadIdle
    /\ SchedIdle
    /\ InstallIdle
    /\ LifeIdle
    /\ WaterIdle
    /\ TableIdle
    /\ LateIdle
    /\ l0Tbls = <<>>
    /\ levels = EmptyLevels
    /\ mangedSafeTS = 0
    /\ commitTS = 0
    /\ idAlloc = 0
    /\ listener \in BOOLEAN
    /\ loop = [pc |-> "plan", priorities |-> <<>>, i |-> 0, running |-> 0, done |-> 0]
    /\ shards = sh
    /\ gos = [s \in ShardIDs |-> NoGo]
    /\ closed = FALSE

NoShard == [present |-> FALSE, score |-> 1, compacting |-> FALSE, passive |-> FALSE,
            lock |-> "free", pending |-> FALSE]

\* A map that holds every shard of ShardIDs, some of them passive.
LoopInit ==
    \E sh \in [ShardIDs -> [present : {TRUE}, score : Scores, compacting : {FALSE},
                            passive : BOOLEAN, lock : {"free"}, pending : {FALSE}]] :
        LoopStart(sh)

LoopFrame == UNCHANGED <<execVars, shardVars, readVars, installVars, lifeVars,
                         waterVars, tableVars, lateVars>>

spawnMore_All(i, n) == i < n

\* The for loop's condition: i < sdb.opt.NumCompactors && i < len(priorities).
spawnMore(i, n) == i < NumCompactors /\ i < n

\* priorities = sdb.GetCompactionPriorities(priorities); wg := new(WaitGroup).
LoopPlan ==
    /\ loop.pc = "plan"
    /\ \E p \in SortedPriorities(shards) :
          loop' = [loop EXCEPT !.pc = "spawn", !.priorities = p, !.i = 0]
    /\ UNCHANGED <<shards, gos, closed>>
    /\ LoopFrame

\* One pass of the for loop: markCompacting(true), wg.Add(1), go func().
LoopSpawn ==
    /\ loop.pc = "spawn"
    /\ spawnMore(loop.i, Len(loop.priorities))
    /\ LET s == loop.priorities[loop.i + 1].Shard
       IN /\ shards' = [shards EXCEPT ![s].compacting = TRUE]
          /\ gos' = [gos EXCEPT ![s] = [pc |-> "start", err |-> FALSE]]
    /\ loop' = [loop EXCEPT !.i = @ + 1, !.running = @ + 1]
    /\ UNCHANGED closed
    /\ LoopFrame

LoopWait_NoWait ==
    /\ loop.pc = "spawn"
    /\ ~spawnMore(loop.i, Len(loop.priorities))
    /\ loop' = [loop EXCEPT !.pc = "select"]
    /\ UNCHANGED <<shards, gos, closed>>
    /\ LoopFrame

\* The for loop has ended and wg.Wait() returns.
LoopWait ==
    /\ loop.pc = "spawn"
    /\ ~spawnMore(loop.i, Len(loop.priorities))
    /\ loop.running = 0
    /\ loop' = [loop EXCEPT !.pc = "select"]
    /\ UNCHANGED <<shards, gos, closed>>
    /\ LoopFrame

\* The select statement is reached: a closed closer is ready at once, the
\* timer is not; the deferred c.Done() runs on return.
LoopSelect ==
    /\ loop.pc = "select"
    /\ loop' = IF closed THEN [loop EXCEPT !.pc = "done", !.done = @ + 1]
               ELSE [loop EXCEPT !.pc = "sleep"]
    /\ UNCHANGED <<shards, gos, closed>>
    /\ LoopFrame

\* case <-time.After(100ms): taken also when the closer was signalled while
\* the timer ran out, select choosing among the ready cases.
LoopTimer ==
    /\ loop.pc = "sleep"
    /\ loop' = [loop EXCEPT !.pc = "plan"]
    /\ UNCHANGED <<shards, gos, closed>>
    /\ LoopFrame

\* case <-c.HasBeenClosed(): return, and the deferred c.Done().
LoopClosed ==
    /\ loop.pc = "sleep"
    /\ closed
    /\ loop' = [loop EXCEPT !.pc = "done", !.done = @ + 1]
    /\ UNCHANGED <<shards, gos, closed>>
    /\ LoopFrame

\* The closer is signalled.
Close ==
    /\ ~closed
    /\ closed' = TRUE
    /\ UNCHANGED <<loop, shards, gos>>
    /\ LoopFrame

\* CompactShard: shard.lock.Lock().
GoLock(s) ==
    /\ gos[s].pc = "start"
    /\ shards[s].lock = "free"
    /\ shards' = [shards EXCEPT ![s].lock = "worker"]
    /\ gos' = [gos EXCEPT ![s].pc = "locked"]
    /\ UNCHANGED <<loop, closed>>
    /\ LoopFrame

\* CompactShard from the lock to the job definition: a passive shard
\* returns nil, else fillTables and setHasOverlapping.
GoFill(s) ==
    /\ gos[s].pc = "locked"
    /\ gos' = [gos EXCEPT ![s].pc = IF shards[s].passive THEN "unlock" ELSE "merge"]
    /\ UNCHANGED <<loop, shards, closed>>
    /\ LoopFrame

\* compactBuildTables, or the buildOne loop: the inputs are merged and the
\* output tables written; a failed write returns the error.
GoMerge(s) ==
    /\ gos[s].pc = "merge"
    /\ \E err \in BOOLEAN :
          gos' = [gos EXCEPT ![s] = [pc |-> IF err THEN "unlock" ELSE "install",
                                     err |-> err]]
    /\ UNCHANGED <<loop, shards, closed>>
    /\ LoopFrame

\* applyCompaction on shard s: the levels change, which lowers the score, and
\* the deferred markCompacting(false).
Installed(s, score) ==
    shards' = [shards EXCEPT ![s].score = score, ![s].compacting = FALSE,
                             ![s].pending = FALSE]

\* The end of runCompactionDef: OnChange(change) with a listener, else
\* applyCompaction.
GoInstall(s) ==
    /\ gos[s].pc = "install"
    /\ IF listener
       THEN shards' = [shards EXCEPT ![s].pending = TRUE]
       ELSE \E score \in 1..(shards[s].score - 1) : Installed(s, score)
    /\ gos' = [gos EXCEPT ![s].pc = "unlock"]
    /\ UNCHANGED <<loop, closed>>
    /\ LoopFrame

\* The deferred shard.lock.Unlock() as CompactShard returns.
GoUnlock(s) ==
    /\ gos[s].pc = "unlock"
    /\ shards' = [shards EXCEPT ![s].lock = "free"]
    /\ gos' = [gos EXCEPT ![s].pc = "returned"]
    /\ UNCHANGED <<loop, closed>>
    /\ LoopFrame

\* The goroutine after CompactShard: markCompacting(false) on an error or
\* without a listener, then wg.Done().
GoFinish(s) ==
    /\ gos[s].pc = "returned"
    /\ shards' = [shards EXCEPT ![s].compacting =
                      IF gos[s].err \/ ~listener THEN FALSE ELSE @]
    /\ gos' = [gos EXCEPT ![s] = NoGo]
    /\ loop' = [loop EXCEPT !.running = @ - 1]
    /\ UNCHANGED closed
    /\ LoopFrame

\* ApplyChangeSet of the ChangeSet the listener holds for shard s.
LoopApply(s) ==
    /\ shards[s].pending
    /\ \E score \in 1..(shards[s].score - 1) : Installed(s, score)
    /\ UNCHANGED <<loop, gos, closed>>
    /\ LoopFrame

\* A shard operation that takes the shard's mutex (split, truncate) begins.
ShardOpLock(s) ==
    /\ shards[s].present
    /\ shards[s].lock = "free"
    /\ shards' = [shards EXCEPT ![s].lock = "op"]
    /\ UNCHANGED <<loop, gos, closed>>
    /\ LoopFrame

\* It ends; a truncate has emptied the shard, a split has made it passive.
ShardOpUnlock(s) ==
    /\ shards[s].lock = "op"
    /\ \E pas \in BOOLEAN :
          shards' = [shards EXCEPT ![s].lock = "free", ![s].passive = pas]
    /\ UNCHANGED <<loop, gos, closed>>
    /\ LoopFrame

Go(s) == GoLock(s) \/ GoFill(s) \/ GoMerge(s) \/ GoInstall(s) \/ GoUnlock(s) \/ GoFinish(s)

LoopStep == LoopPlan \/ LoopSpawn \/ LoopWait \/ LoopSelect \/ LoopTimer \/ LoopClosed

LoopNext ==
    \/ LoopStep
    \/ Close
    \/ \E s \in ShardIDs : Go(s) \/ LoopApply(s)

\* The loop's goroutine and the goroutines it starts are scheduled, and
\* CompactShard returns.
SpecLoop ==
    /\ LoopInit
    /\ [][LoopNext]_vars
    /\ WF_vars(LoopStep)
    /\ \A s \in ShardIDs : WF_vars(Go(s))

\* ----------------------------------------------------------- the lock check
\* The loop on a map of one shard, beside the operations that take the
\* shard's mutex.
LockInit ==
    \E score \in Scores :
        LoopStart([s \in ShardIDs |->
                      IF s = 1 THEN [NoShard EXCEPT !.present = TRUE, !.score = score]
                      ELSE NoShard])

LockNext ==
    \/ LoopNext
    \/ \E s \in ShardIDs : ShardOpLock(s) \/ ShardOpUnlock(s)

SpecLock == LockInit /\ [][LockNext]_vars

\* ------------------------------------------------------ the watermark check
\* Concurrent calls of UpdateMangedSafeTs, each stepped through its atomic
\* operations, beside one L0 job stepped through its column families.
Callers == 1..NumCallers

NoCall == [pc |-> "none", ts |-> 0, old |-> 0]

\* Both column families of two L0 tables hold a version of key 1.
WaterL0 ==
    <<[id |-> 2, cfs |-> [c \in CFs |-> <<PutRec(1, 2)>>]],
      [id |-> 1, cfs |-> [c \in CFs |-> <<PutRec(1, 1)>>]]>>

WaterInit ==
    /\ ExecIdle
    /\ ReadIdle
    /\ SchedIdle
    /\ InstallIdle
    /\ LifeIdle
    /\ LoopIdle
    /\ TableIdle
    /\ LateIdle
    /\ l0Tbls = WaterL0
    /\ levels = EmptyLevels
    /\ commitTS = 2
    /\ idAlloc = 2
    /\ listener = TRUE
    /\ mangedSafeTS \in 0..1
    /\ updaters = [init |-> mangedSafeTS, call |-> [c \in Callers |-> NoCall]]
    /\ l0job = NoL0Job

WaterFrame ==
    UNCHANGED <<l0Tbls, levels, compacting, commitTS, worker, jobs, emitted, manifest,
                reclaimed, panicked, listener, inflight, execVars, readVars,
                installVars, lifeVars, loopVars, tableVars, lateVars>>

\* A caller enters UpdateMangedSafeTs(ts).
UpdCall(c) ==
    /\ updaters.call[c].pc = "none"
    /\ \E ts \in 0..MaxVer :
          updaters' = [updaters EXCEPT !.call[c] = [pc |-> "load", ts |-> ts, old |-> 0]]
    /\ UNCHANGED <<mangedSafeTS, idAlloc, l0job>>
    /\ WaterFrame

\* old := atomic.LoadUint64(&sdb.mangedSafeTS); if old < ts ... else break.
UpdLoad(c) ==
    /\ updaters.call[c].pc = "load"
    /\ updaters' = [updaters EXCEPT !.call[c].old = mangedSafeTS,
                                    !.call[c].pc = IF mangedSafeTS < updaters.call[c].ts
                                                   THEN "cas" ELSE "done"]
    /\ UNCHANGED <<mangedSafeTS, idAlloc, l0job>>
    /\ WaterFrame

UpdCas_Store(c) ==
    /\ updaters.call[c].pc = "cas"
    /\ mangedSafeTS' = updaters.call[c].ts
    /\ updaters' = [updaters EXCEPT !.call[c].pc = "done"]
    /\ UNCHANGED <<idAlloc, l0job>>
    /\ WaterFrame

\* atomic.CompareAndSwapUint64(&sdb.mangedSafeTS, old, ts): break when it
\* succeeds, continue when it fails.
UpdCas(c) ==
    /\ updaters.call[c].pc = "cas"
    /\ IF mangedSafeTS = updaters.call[c].old
       THEN /\ mangedSafeTS' = updaters.call[c].ts
            /\ updaters' = [updaters EXCEPT !.call[c].pc = "done"]
       ELSE /\ mangedSafeTS' = mangedSafeTS
            /\ updaters' = [updaters EXCEPT !.call[c].pc = "load"]
    /\ UNCHANGED <<idAlloc, l0job>>
    /\ WaterFrame

\* compactShardMultiCFL0 begins: l0Tbls := shard.loadL0Tables().
L0Begin ==
    /\ l0job.pc = "off"
    /\ Len(l0Tbls) > NumLevelZeroTables
    /\ l0job' = [NoL0Job EXCEPT !.pc = "cf", !.l0 = l0Tbls, !.acc.idAlloc = idAlloc]
    /\ UNCHANGED <<mangedSafeTS, idAlloc, updaters>>
    /\ WaterFrame

\* One pass of the loop over the column families: newBuildHelper reads the
\* safe-ts of cf, then buildOne runs until it returns nil.
L0BuildCF ==
    /\ l0job.pc = "cf"
    /\ l0job.cf < numCFs
    /\ l0job' = [l0job EXCEPT
                   !.cf = @ + 1,
                   !.safeTS = Append(@, mangedSafeTS),
                   !.acc = l0AddCF(l0job.acc, l0job.cf, levels[l0job.cf][1],
                               buildAll([safeTS |-> mangedSafeTS, filter |-> NilFilter,
                                         MaxTableSize |-> MaxTableSize],
                                        l0Iterator(l0job.l0, levels[l0job.cf][1], l0job.cf),
                                        ExecInit(l0job.acc.idAlloc + 1)))]
    /\ UNCHANGED <<mangedSafeTS, idAlloc, updaters>>
    /\ WaterFrame

\* After the loop: the TopDeletes, and the ChangeSet goes to the listener.
L0End ==
    /\ l0job.pc = "cf"
    /\ l0job.cf >= numCFs
    /\ l0job' = [l0job EXCEPT !.pc = "done",
                              !.acc.comp.TopDeletes = getTblIDs(l0job.l0)]
    /\ idAlloc' = l0job.acc.idAlloc
    /\ UNCHANGED <<mangedSafeTS, updaters>>
    /\ WaterFrame

WaterNext ==
    \/ \E c \in Callers : UpdCall(c) \/ UpdLoad(c) \/ UpdCas(c)
    \/ L0Begin
    \/ L0BuildCF
    \/ L0End

SpecWater == WaterInit /\ [][WaterNext]_vars

\* ---------------------------------------------------------- the table checks
\* assertTablesOrder and fillTables as functions of the table sequences they
\* are given.
\* The runs a table may hold: one or two versions of one key, or one version
\* of each of two keys.
TableRuns ==
    {<<PutRec(a, 1)>> : a \in ShardKeys}
    \cup {<<PutRec(a, 2), PutRec(a, 1)>> : a \in ShardKeys}
    \cup UNION {{<<PutRec(a, 1), PutRec(b, 1)>> : b \in ShardKeys \ (1..a)} : a \in ShardKeys}

\* Runs whose first key is after their last: a table with Smallest > Biggest.
ReversedRuns ==
    UNION {{<<PutRec(b, 1), PutRec(a, 1)>> : b \in ShardKeys \ (1..a)} : a \in ShardKeys}

\* The table sequences of up to MaxTables tables over the runs R, with ids
\* from base + 1 on.
TableSeqs(R, base) ==
    UNION {{[i \in 1..n |-> [id |-> base + i, recs |-> c[i]]] : c \in [1..n -> R]}
             : n \in 0..MaxTables}

\* Those that a level >= 1 holds: each table before the next, none sharing a
\* key.
LevelSeqs(base) ==
    {ts \in TableSeqs(TableRuns, base) :
        \A i \in 1..(Len(ts) - 1) : ts[i].recs[Len(ts[i].recs)].uk < ts[i + 1].recs[1].uk}

TableStart ==
    /\ ExecIdle
    /\ ReadIdle
    /\ SchedIdle
    /\ InstallIdle
    /\ LifeIdle
    /\ LoopIdle
    /\ WaterIdle
    /\ LateIdle
    /\ l0Tbls = <<>>
    /\ levels = EmptyLevels
    /\ mangedSafeTS = 0
    /\ commitTS = 0
    /\ idAlloc = 0
    /\ listener = FALSE
    /\ tpc = "in"
    /\ tres = [ok |-> TRUE]

TableFrame ==
    UNCHANGED <<tin, execVars, shardVars, readVars, installVars, lifeVars, loopVars,
                waterVars, lateVars>>

\* Any level number and any sequence of tables.
OrderInit ==
    /\ TableStart
    /\ \E level \in 0..1, ts \in TableSeqs(TableRuns \cup ReversedRuns, 0) :
          tin = [level |-> level, this |-> ts, next |-> <<>>]

\* assertTablesOrder(level, tables, cd): ok tells that it returned.
RunAssertOrder ==
    /\ tpc = "in"
    /\ tpc' = "order"
    /\ tres' = [ok |-> assertTablesOrder(tin.level, tin.this)]
    /\ TableFrame

SpecOrder == OrderInit /\ [][RunAssertOrder]_vars

\* The tables of a level and of the level below it.
FillInit ==
    /\ TableStart
    /\ \E this \in LevelSeqs(0), next \in LevelSeqs(MaxTables) :
          tin = [level |-> 1, this |-> this, next |-> next]

\* CompactShard on a priority of column family 0, level tin.level, whose
\* levels hold the tables drawn: seed is the CompactDef the first loop of
\* fillTables leaves, job what CompactShard comes to.
RunFillTables ==
    /\ tpc = "in"
    /\ tpc' = "fill"
    /\ tres' = [ok |-> fillTables(NewCompactDef(0, tin.level), tin.this, tin.next).ok,
                cd |-> fillTables(NewCompactDef(0, tin.level), tin.this, tin.next).cd,
                seed |-> pickSeed(tin.this, tin.next, 0,
                                  [ratio |-> [n |-> 0, d |-> 1],
                                   cd |-> NewCompactDef(0, tin.level)]).cd,
                job |-> CompactShard([CF |-> 0, Level |-> tin.level],
                                     <<>>, LevelsOf(tin.this, tin.next, <<>>), 0, 2 * MaxTables)]
    /\ TableFrame

SpecFill == FillInit /\ [][RunFillTables]_vars

\* ----------------------------------------------------------- the split check
\* applySplitFiles on a shard in the pre-split phase, beside the install of a
\* compaction ChangeSet the listener holds.
RECURSIVE FlatSeq(_)
FlatSeq(ss) == IF ss = <<>> THEN <<>> ELSE Head(ss) \o FlatSeq(Tail(ss))

lowerHalf(recs, k) == SelectSeq(recs, LAMBDA r : r.uk < k)

upperHalf(recs, k) == SelectSeq(recs, LAMBDA r : r.uk >= k)

\* The L0 table holds keys on both sides of the split key k.
l0Spans(t, k) ==
    /\ \E cf \in CFs : lowerHalf(t.cfs[cf], k) # <<>>
    /\ \E cf \in CFs : upperHalf(t.cfs[cf], k) # <<>>

\* The SplitFiles ChangeSet of a split at key k: every table that holds keys
\* on both sides of k is deleted and its two halves are created in its place,
\* under the ids id + 2 * (its id) - 1 and id + 2 * (its id).
SplitFilesAt(l0, lv, k, id) ==
    LET l0s == SelectSeq(l0, LAMBDA t : l0Spans(t, k))
        spans(t) == lowerHalf(t.recs, k) # <<>> /\ upperHalf(t.recs, k) # <<>>
        slot(i) == [cf |-> (i - 1) \div ShardMaxLevel, l |-> ((i - 1) % ShardMaxLevel) + 1]
        split(i) == SelectSeq(lv[slot(i).cf][slot(i).l].tables, spans)
    IN [L0Creates |->
            FlatSeq([i \in 1..Len(l0s) |->
                <<[ID |-> id + 2 * l0s[i].id - 1,
                   file |-> [cf \in CFs |-> lowerHalf(l0s[i].cfs[cf], k)]],
                  [ID |-> id + 2 * l0s[i].id,
                   file |-> [cf \in CFs |-> upperHalf(l0s[i].cfs[cf], k)]]>>]),
        TableCreates |->
            FlatSeq([i \in 1..(numCFs * ShardMaxLevel) |->
                FlatSeq([j \in 1..Len(split(i)) |->
                    <<[ID |-> id + 2 * split(i)[j].id - 1, CF |-> slot(i).cf,
                       Level |-> slot(i).l, file |-> lowerHalf(split(i)[j].recs, k)],
                      [ID |-> id + 2 * split(i)[j].id, CF |-> slot(i).cf,
                       Level |-> slot(i).l, file |-> upperHalf(split(i)[j].recs, k)]>>])]),
        TableDeletes |->
            getTblIDs(l0s) \o
            FlatSeq([i \in 1..(numCFs * ShardMaxLevel) |-> getTblIDs(split(i))])]

\* shardL0Table.commitTS: the version the table's records were written at.
l0CommitTS(t) ==
    CHOOSE v \in 0..MaxVer :
        /\ \A cf \in CFs : \A i \in 1..Len(t.cfs[cf]) : t.cfs[cf][i].ver <= v
        /\ v = 0 \/ \E cf \in CFs : \E i \in 1..Len(t.cfs[cf]) : t.cfs[cf][i].ver = v

\* sort.Slice by commitTS, descending: every order of the tables it may leave.
sortL0s(tables) ==
    {[i \in 1..Len(tables) |-> tables[f[i]]] :
        f \in {g \in [1..Len(tables) -> 1..Len(tables)] :
                 /\ \A a \in 1..Len(tables), b \in 1..Len(tables) : a # b => g[a] # g[b]
                 /\ \A a \in 1..(Len(tables) - 1) :
                        l0CommitTS(tables[g[a]]) >= l0CommitTS(tables[g[a + 1]])}}

\* applySplitFiles, the L0 pool: the created tables, then the old ones that
\* are not deleted.
splitL0Tables(l0, sf) ==
    [i \in 1..Len(sf.L0Creates) |-> [id |-> sf.L0Creates[i].ID, cfs |-> sf.L0Creates[i].file]]
    \o SelectSeq(l0, LAMBDA t : t.id \notin SeqToSet(sf.TableDeletes))

\* applySplitFiles, newHandlers[cf][level-1]: the handler the TableCreates of
\* (cf, level) are appended to, nil (no table) when there is none.
splitNewHandler(sf, cf, level) ==
    LET mine == SelectSeq(sf.TableCreates, LAMBDA c : c.CF = cf /\ c.Level = level)
    IN [newLevelHandler EXCEPT
          !.tables = [i \in 1..Len(mine) |-> [id |-> mine[i].ID, recs |-> mine[i].file]]]

\* applySplitFiles, the loop over the levels: a level below ShardMaxLevel
\* whose new handler is not nil gets it, with the old tables that are not
\* deleted, sorted by smallest user key.
splitLevels(lv, sf) ==
    [cf \in CFs |-> [level \in Levels |->
        IF level < ShardMaxLevel /\ splitNewHandler(sf, cf, level).tables # <<>>
        THEN [splitNewHandler(sf, cf, level) EXCEPT
                !.tables = sortTables(@ \o keptTables(lv[cf][level].tables, sf.TableDeletes))]
        ELSE lv[cf][level]]]

\* applySplitFiles: what del.collect() holds.
splitDeleted(l0, lv, sf) ==
    {t.id : t \in {x \in SeqToSet(l0) : x.id \in SeqToSet(sf.TableDeletes)}}
    \cup UNION {UNION {{t.id : t \in {x \in SeqToSet(lv[cf][level].tables) :
                                         x.id \in SeqToSet(sf.TableDeletes)}}
                         : level \in {l \in Levels :
                                        /\ l < ShardMaxLevel
                                        /\ splitNewHandler(sf, cf, l).tables # <<>>}}
                  : cf \in CFs}

\* The SplitFiles ChangeSet is number 0 in the manifest.
SplitSeq == 0

\* One table of two records for a level, or none.
SplitRuns ==
    {<<>>} \cup UNION {{<<[id |-> 0, recs |-> <<PutRec(a, 1), PutRec(b, 1)>>]>>
                          : b \in ShardKeys \ (1..a)} : a \in ShardKeys}

withID(tables, id) == [i \in 1..Len(tables) |-> [tables[i] EXCEPT !.id = id]]

\* A shard with at most one L0 table, one table on level 1 and one on the
\* last level, in column family 0.
SplitLayouts ==
    {[l0 |-> l0,
      lv |-> [EmptyLevels EXCEPT ![0][1] = mkLevel(withID(t1, 2)),
                                 ![0][ShardMaxLevel] = mkLevel(withID(tn, 3))]]
        : l0 \in {<<>>, <<L0Table(1, 0, <<PutRec(1, 2), PutRec(3, 2)>>)>>},
          t1 \in SplitRuns, tn \in SplitRuns}

\* The shard, the compaction ChangeSet r the listener was given for it, and
\* the SplitFiles ChangeSet of a split at k.
SplitInitOn(lay, r, k, state) ==
    /\ l0Tbls = lay.l0
    /\ levels = lay.lv
    /\ idAlloc = r.idAlloc
    /\ jobs = <<[pri |-> getCompactionPriority(lay.l0, lay.lv), kind |-> r.kind,
                 cd |-> r.cd, comp |-> r.comp, safeTS |-> 0]>>
    /\ emitted = IF r.kind \in {"l0", "move", "merge"} THEN {1} ELSE {}
    /\ inflight = emitted
    /\ compacting = (emitted # {})
    /\ splitFiles = [pc |-> "in", state |-> state,
                     sf |-> SplitFilesAt(lay.l0, lay.lv, k, r.idAlloc)]

SplitInit ==
    /\ ExecIdle
    /\ ReadIdle
    /\ InstallIdle
    /\ LifeIdle
    /\ LoopIdle
    /\ WaterIdle
    /\ TableIdle
    /\ SnapAppIdle
    /\ SnapRunIdle
    /\ worker = NoWorker
    /\ manifest = {}
    /\ reclaimed = {}
    /\ panicked = FALSE
    /\ mangedSafeTS = 0
    /\ commitTS = 2
    /\ listener = TRUE
    /\ \E lay \in SplitLayouts, k \in ShardKeys \ {1},
          state \in {"PRE_SPLIT", "PRE_SPLIT_FLUSH_DONE"} :
           IF getCompactionPriority(lay.l0, lay.lv).Score.n
                  > getCompactionPriority(lay.l0, lay.lv).Score.d
           THEN SplitInitOn(lay, CompactShard(getCompactionPriority(lay.l0, lay.lv),
                                              lay.l0, lay.lv, 0, 3), k, state)
           ELSE SplitInitOn(lay, [kind |-> "nil", cd |-> NewCompactDef(0, 0),
                                  comp |-> NoCompaction, idAlloc |-> 3], k, state)

\* applySplitFiles(shard, changeSet, guard): errShardWrongSplittingState
\* outside PRE_SPLIT_FLUSH_DONE, nil for a ChangeSet the manifest holds, else
\* the L0 pool and the level handlers are swapped and the state is set.
ApplySplitFiles ==
    /\ splitFiles.pc = "in"
    /\ ~panicked
    /\ IF splitFiles.state # "PRE_SPLIT_FLUSH_DONE"
       THEN /\ splitFiles' = [splitFiles EXCEPT !.pc = "err"]
            /\ UNCHANGED <<l0Tbls, levels, manifest, reclaimed>>
       ELSE IF isDuplicatedChange(manifest, SplitSeq)
       THEN /\ splitFiles' = [splitFiles EXCEPT !.pc = "done"]
            /\ UNCHANGED <<l0Tbls, levels, manifest, reclaimed>>
       ELSE /\ manifest' = manifest \cup {SplitSeq}
            /\ l0Tbls' \in sortL0s(splitL0Tables(l0Tbls, splitFiles.sf))
            /\ levels' = splitLevels(levels, splitFiles.sf)
            /\ reclaimed' = reclaimed \cup splitDeleted(l0Tbls, levels, splitFiles.sf)
            /\ splitFiles' = [splitFiles EXCEPT !.pc = "done", !.state = "SPLIT_FILE_DONE"]
    /\ UNCHANGED <<compacting, mangedSafeTS, commitTS, idAlloc, worker, jobs, emitted,
                   panicked, listener, inflight, snapApp, snapRun, execVars, readVars,
                   installVars, lifeVars, loopVars, waterVars, tableVars>>

SplitNext == ApplySplitFiles \/ ApplyChangeSet

SpecSplit == SplitInit /\ [][SplitNext]_vars

\* ------------------------------------------------- the snapshot applier
\* snapApplier over the lock, write and default CF files of a snapshot: one
\* call of next() per step.
MaxSnapKey == 2

MaxSnapTS == 2

MaxSnapWrites == 3

MaxSnapCalls == 8

\* Every check beside the engine at rest, the shard empty.
SnapStart ==
    /\ ExecIdle
    /\ ReadIdle
    /\ SchedIdle
    /\ InstallIdle
    /\ LifeIdle
    /\ LoopIdle
    /\ WaterIdle
    /\ TableIdle
    /\ SplitIdle
    /\ l0Tbls = <<>>
    /\ levels = EmptyLevels
    /\ mangedSafeTS = 0
    /\ commitTS = 0
    /\ idAlloc = 0
    /\ listener = FALSE

SnapFrame ==
    UNCHANGED <<execVars, shardVars, readVars, installVars, lifeVars, loopVars,
                waterVars, tableVars, splitFiles>>

RECURSIVE sortRanks(_)
sortRanks(R) ==
    IF R = {} THEN <<>>
    ELSE LET m == CHOOSE x \in R : \A y \in R : x <= y
         IN <<m>> \o sortRanks(R \ {m})

\* The write CF file: entries in the order of the SST iterator, user key
\* ascending and commit ts descending; hasShort tells that the value carries
\* a short value.
WriteCFFiles ==
    UNION {{[i \in 1..Len(sortRanks(R)) |->
                [key |-> ((sortRanks(R)[i] - 1) \div MaxSnapTS) + 1,
                 commitTS |-> MaxSnapTS - ((sortRanks(R)[i] - 1) % MaxSnapTS),
                 startTS |-> MaxSnapTS - ((sortRanks(R)[i] - 1) % MaxSnapTS) - 1,
                 writeType |-> f[sortRanks(R)[i]][1],
                 hasShort |-> f[sortRanks(R)[i]][2]]]
              : f \in [R -> {"Op_Put", "Op_Lock", "Op_Rollback"} \X BOOLEAN]}
             : R \in {X \in SUBSET (1..(MaxSnapKey * MaxSnapTS)) :
                         Cardinality(X) <= MaxSnapWrites}}

\* The lock CF file: at most one lock per key, in key order.
LockCFFiles ==
    {SelectSeq([k \in 1..MaxSnapKey |->
                   [key |-> k, startTS |-> MaxSnapTS, lockType |-> "Op_Put",
                    hasShort |-> (g[k] = "short"), there |-> (g[k] # "none")]],
               LAMBDA e : e.there)
        : g \in [1..MaxSnapKey -> {"none", "short", "long"}]}

\* The default CF file of a valid snapshot: one entry for every Put without a
\* short value, key ascending and start ts descending.
DefaultCFFile(lockf, writef) ==
    FlatSeq([k \in 1..MaxSnapKey |->
        [i \in 1..Len(SelectSeq(lockf, LAMBDA e : e.key = k /\ ~e.hasShort)) |->
            [key |-> k, startTS |-> MaxSnapTS]]
        \o [i \in 1..Len(SelectSeq(writef, LAMBDA e : e.key = k /\ ~e.hasShort
                                                       /\ e.writeType = "Op_Put")) |->
            [key |-> k,
             startTS |-> SelectSeq(writef, LAMBDA e : e.key = k /\ ~e.hasShort
                                              /\ e.writeType = "Op_Put")[i].startTS]]])

\* newSnapApplier: the first lock entry is read, the iterators are at their
\* first entries; a key of 0 is nil.
newSnapApplier(lockf, writef, deff) ==
    [pc |-> "run",
     curLockKey |-> IF lockf # <<>> THEN lockf[1].key ELSE 0,
     curLockValue |-> IF lockf # <<>> THEN <<lockf[1]>> ELSE <<>>,
     lockCFData |-> IF lockf # <<>> THEN Tail(lockf) ELSE <<>>,
     writeCF |-> writef,
     writeCFIterator |-> 1,
     curWriteKey |-> IF writef # <<>> THEN writef[1].key ELSE 0,
     curWriteCommitTS |-> IF writef # <<>> THEN writef[1].commitTS ELSE 0,
     lastWriteKey |-> 0,
     lastCommitTS |-> 0,
     defaultCF |-> deff,
     defaultCFIterator |-> 1,
     items |-> <<>>]

\* loadFullValueOpt with pop: errInvalidSnapshot unless the default CF
\* iterator stands on the entry of (key, startTS).
popFullValue(ai, key, startTS, hasShort, op) ==
    IF ~hasShort /\ op = "Op_Put"
    THEN IF \/ ai.defaultCFIterator > Len(ai.defaultCF)
            \/ ai.defaultCF[ai.defaultCFIterator].key # key
            \/ ai.defaultCF[ai.defaultCFIterator].startTS # startTS
         THEN [ai |-> ai, err |-> TRUE]
         ELSE [ai |-> [ai EXCEPT !.defaultCFIterator = @ + 1], err |-> FALSE]
    ELSE [ai |-> ai, err |-> FALSE]

\* The result of a call: the applier after it, the item returned (none is
\* nil) and the error.
snapResult(ai, item, err) == [ai |-> ai, item |-> item, err |-> err]

nextLock(ai) ==
    LET lv == ai.curLockValue[1]
        val == popFullValue(ai, ai.curLockKey, lv.startTS, lv.hasShort, lv.lockType)
        item == [applySnapType |-> "applySnapTypeLock", key |-> ai.curLockKey,
                 ts |-> 0, startTS |-> lv.startTS]
    IN IF val.err THEN snapResult(val.ai, <<>>, TRUE)
       ELSE IF Len(val.ai.lockCFData) > 0
       THEN snapResult([val.ai EXCEPT !.curLockKey = val.ai.lockCFData[1].key,
                                      !.curLockValue = <<val.ai.lockCFData[1]>>,
                                      !.lockCFData = Tail(@)],
                       <<item>>, FALSE)
       ELSE snapResult([val.ai EXCEPT !.curLockKey = 0], <<item>>, FALSE)

writeCFIteratorNext(ai) ==
    LET it == ai.writeCFIterator + 1
        moved == [ai EXCEPT !.lastWriteKey = ai.curWriteKey,
                            !.lastCommitTS = ai.curWriteCommitTS,
                            !.writeCFIterator = it]
    IN IF it <= Len(ai.writeCF)
       THEN [moved EXCEPT !.curWriteKey = ai.writeCF[it].key,
                          !.curWriteCommitTS = ai.writeCF[it].commitTS]
       ELSE [moved EXCEPT !.curWriteKey = 0]

nextWrite(ai) ==
    LET writeVal == ai.writeCF[ai.writeCFIterator]
        val == popFullValue(ai, ai.curWriteKey, writeVal.startTS, writeVal.hasShort,
                            writeVal.writeType)
    IN IF writeVal.writeType = "Op_Rollback"
       THEN snapResult(ai, <<[applySnapType |-> "applySnapTypeRollback",
                              key |-> ai.curWriteKey, ts |-> writeVal.startTS,
                              startTS |-> writeVal.startTS]>>, FALSE)
       ELSE IF writeVal.writeType = "Op_Lock"
       THEN snapResult(ai, <<[applySnapType |-> "applySnapTypeOpLock",
                              key |-> ai.curWriteKey, ts |-> writeVal.startTS,
                              startTS |-> writeVal.startTS]>>, FALSE)
       ELSE IF val.err THEN snapResult(val.ai, <<>>, TRUE)
       ELSE snapResult(writeCFIteratorNext(val.ai),
                       <<[applySnapType |-> "applySnapTypePut",
                          key |-> ai.curWriteKey, ts |-> ai.curWriteCommitTS,
                          startTS |-> writeVal.startTS]>>, FALSE)

\* snapApplier.next
applierNext(ai) ==
    IF ai.curLockKey # 0 /\ ai.curWriteKey # 0
    THEN IF ai.curLockKey <= ai.curWriteKey THEN nextLock(ai) ELSE nextWrite(ai)
    ELSE IF ai.curLockKey # 0 THEN nextLock(ai)
    ELSE IF ai.curWriteKey # 0 THEN nextWrite(ai)
    ELSE snapResult(ai, <<>>, FALSE)

SnapAppInit ==
    /\ SnapStart
    /\ SnapRunIdle
    /\ \E lockf \in LockCFFiles, writef \in WriteCFFiles :
          snapApp = newSnapApplier(lockf, writef, DefaultCFFile(lockf, writef))

\* One call of next() by the apply loop, which stops at nil or at an error.
SnapNext ==
    /\ snapApp.pc = "run"
    /\ Len(snapApp.items) < MaxSnapCalls
    /\ snapApp' = [applierNext(snapApp).ai EXCEPT
                      !.items = @ \o applierNext(snapApp).item,
                      !.pc = IF applierNext(snapApp).err THEN "err"
                             ELSE IF applierNext(snapApp).item = <<>> THEN "nil"
                             ELSE "run"]
    /\ UNCHANGED snapRun
    /\ SnapFrame

SpecSnapApp == SnapAppInit /\ [][SnapNext]_vars /\ WF_vars(SnapNext)

\* --------------------------------------------------- the snapshot runner
\* snapRunner.handle called by NumSnapTasks goroutines, one task each: the
\* load of the counter, the increment and the deferred decrement are steps.
NumSnapTasks == 3

ConcurrentSendSnapLimit == 1

ConcurrentRecvSnapLimit == 1

SnapTasks == 1..NumSnapTasks

snapLimit(tp) ==
    IF tp = "taskTypeSnapSend" THEN ConcurrentSendSnapLimit ELSE ConcurrentRecvSnapLimit

snapCount(r, tp) ==
    IF tp = "taskTypeSnapSend" THEN r.sendingCount ELSE r.receivingCount

snapAdd(r, tp, d) ==
    IF tp = "taskTypeSnapSend" THEN [r EXCEPT !.sendingCount = @ + d]
    ELSE [r EXCEPT !.receivingCount = @ + d]

SnapRunInit ==
    /\ SnapStart
    /\ SnapAppIdle
    /\ \E tps \in [SnapTasks -> {"taskTypeSnapSend", "taskTypeSnapRecv"}] :
          snapRun = [pc |-> "run", sendingCount |-> 0, receivingCount |-> 0,
                     tasks |-> [t \in SnapTasks |->
                                   [tp |-> tps[t], pc |-> "handle", callback |-> "none"]]]

\* send / recv up to the limit test: over the limit the callback gets the
\* error and the call returns.
SnapCheck(t) ==
    /\ snapRun.pc = "run"
    /\ snapRun.tasks[t].pc = "handle"
    /\ snapRun' = IF snapCount(snapRun, snapRun.tasks[t].tp) > snapLimit(snapRun.tasks[t].tp)
                  THEN [snapRun EXCEPT !.tasks[t].pc = "returned",
                                       !.tasks[t].callback = "error"]
                  ELSE [snapRun EXCEPT !.tasks[t].pc = "admitted"]
    /\ UNCHANGED snapApp
    /\ SnapFrame

\* atomic.AddInt64(&count, 1): the task runs from here on.
SnapBegin(t) ==
    /\ snapRun.pc = "run"
    /\ snapRun.tasks[t].pc = "admitted"
    /\ snapRun' = [snapAdd(snapRun, snapRun.tasks[t].tp, 1) EXCEPT
                      !.tasks[t].pc = "running"]
    /\ UNCHANGED snapApp
    /\ SnapFrame

\* sendSnap / recvSnap returns, the callback gets its result, and the deferred
\* atomic.AddInt64(&count, -1) runs.
SnapEnd(t) ==
    /\ snapRun.pc = "run"
    /\ snapRun.tasks[t].pc = "running"
    /\ \E res \in {"nil", "error"} :
          snapRun' = [snapAdd(snapRun, snapRun.tasks[t].tp, -1) EXCEPT
                         !.tasks[t].pc = "returned",
                         !.tasks[t].callback = res]
    /\ UNCHANGED snapApp
    /\ SnapFrame

SnapRunNext == \E t \in SnapTasks : SnapCheck(t) \/ SnapBegin(t) \/ SnapEnd(t)

SpecSnapRun == SnapRunInit /\ [][SnapRunNext]_vars

\* --------------------------------------------------- claims on the engine
TablesOf(cf, l) == levels[cf][l].tables

\* C1: while the process runs, after any installed compactions every level
\* >= 1 of every column family is sorted by smallest key and its tables have
\* pairwise disjoint key ranges: each table's biggest user key is strictly
\* below the smallest user key of the table after it.
C1_LevelsSortedDisjoint ==
    ~panicked =>
        \A cf \in CFs, l \in Levels :
            \A i \in 1..(Len(TablesOf(cf, l)) - 1) :
                Biggest(TablesOf(cf, l)[i]).uk < Smallest(TablesOf(cf, l)[i + 1]).uk

\* C2: a point lookup at a version >= safe_ts that runs beside the install of
\* one L_i -> L_{i+1} job returns what it returns on the hierarchy before
\* the install or what it returns on the hierarchy after it.
C2_ReadSeesPreOrPost ==
    rd.pc = "done" =>
        Get(rd.vs) \in
            {Get(getValue(l0Tbls, ap.pre, rd.cf, rd.key, rd.version)),
             Get(getValue(l0Tbls, installCompaction(l0Tbls, ap.pre, ap.comp).lv,
                          rd.cf, rd.key, rd.version))}

\* C3: at most one compaction job of the shard is in flight, from the dispatch
\* that marks the shard compacting until its ChangeSet is installed or the job
\* is dropped.
C3_OneJobInFlight == Cardinality(inflight) <= 1

\* The step installs the ChangeSet of job j: the manifest takes it and the
\* process survives the install.
Installs(j) == j \notin manifest /\ j \in manifest' /\ ~panicked'

\* C9: the install of an L_i -> L_{i+1} job leaves every table of level i+1
\* that is not in the job's Bot in level i+1 with its id, out of
\* BottomDeletes and out of what the install gives to guard.Delete, and
\* every table of level i that is not in the job's Top in level i.
C9_InstallFrame ==
    [][\A j \in 1..Len(jobs') :
          (Installs(j) /\ jobs'[j].comp.Level >= 1) =>
              LET comp == jobs'[j].comp
                  cd == jobs'[j].cd
              IN /\ \A t \in SeqToSet(levels[comp.Cf][comp.Level + 1].tables) :
                        t.id \notin Ids(cd.Bot) =>
                            /\ t \in SeqToSet(levels'[comp.Cf][comp.Level + 1].tables)
                            /\ t.id \notin SeqToSet(comp.BottomDeletes)
                            /\ t.id \notin reclaimed' \ reclaimed
                 /\ \A t \in SeqToSet(levels[comp.Cf][comp.Level].tables) :
                        t.id \notin Ids(cd.Top) =>
                            t \in SeqToSet(levels'[comp.Cf][comp.Level].tables)]_vars

\* An installed merge that skipped a table of its window, the table still in
\* level i+1 beside the merge's outputs.
C9_Witness ==
    \E j \in manifest :
        /\ jobs[j].kind = "merge"
        /\ jobs[j].cd.SkippedTbls # <<>>
        /\ jobs[j].comp.TableCreates # <<>>
        /\ SeqToSet(jobs[j].cd.SkippedTbls)
               \subseteq SeqToSet(levels[jobs[j].comp.Cf][jobs[j].comp.Level + 1].tables)

\* The job is one of a level > 0 with empty Bot and empty SkippedTbls.
IsMoveDown(job) ==
    /\ job.kind \in {"move", "merge"}
    /\ job.cd.Level > 0
    /\ job.cd.Bot = <<>>
    /\ job.cd.SkippedTbls = <<>>

LiveIds ==
    {l0Tbls[i].id : i \in 1..Len(l0Tbls)}
    \cup UNION {Ids(levels[cf][l].tables) : cf \in CFs, l \in Levels}

\* C11: while the process runs, a table that a compaction install has given
\* to guard.Delete is referenced neither by the L0 pool nor by a published
\* level of the shard.
C11_ReclaimedNotLive == ~panicked => reclaimed \cap LiveIds = {}

PoolIds(l0) == [i \in 1..Len(l0) |-> l0[i].id]

\* C17: with a MetaChangeListener, the step in which a worker completes a
\* job gives the listener the ChangeSet of that job and no other, and
\* leaves the level handlers, the L0 pool and what the reclaimer was given
\* as they are; and while the ChangeSet of a job is with the listener and
\* not yet applied, the shard is marked compacting.
C17_ListenerDefersInstall ==
    /\ [][\A j \in 1..Len(jobs) :
             (listener /\ jobs[j].kind = "planned"
                  /\ jobs'[j].kind \in {"l0", "move", "merge"}) =>
                 /\ emitted' = emitted \cup {j}
                 /\ j \notin emitted
                 /\ levels' = levels
                 /\ l0Tbls' = l0Tbls
                 /\ reclaimed' = reclaimed
                 /\ manifest' = manifest]_vars
    /\ []((listener /\ ~panicked) => \A j \in emitted \ manifest : compacting)

\* The score the planner is to give level l of column family cf, and the one
\* it is to give the L0 pool, as fractions.
SizeRatio(cf, l) == [n |-> levels[cf][l].totalSize \div LevelOneSize, d |-> Pow10(l - 1)]

PoolRatio ==
    [n |-> 6 * ((l0TotalSize(l0Tbls) * 10) \div LevelOneSize) * NumLevelZeroTables
               + 4 * Len(l0Tbls),
     d |-> 10 * NumLevelZeroTables]

SameScore(a, b) == a.n * b.d = b.n * a.d

Exceeds(a, b) == a.n * b.d > b.n * a.d

\* (cf, l) comes before (cf2, l2) in the order the planner visits the levels.
VisitedBefore(cf, l, cf2, l2) == cf < cf2 \/ (cf = cf2 /\ l < l2)

\* (cf, l) has the maximum score, and is the first to have it.
IsFirstMax(cf, l) ==
    \A cf2 \in CFs, l2 \in Levels :
        /\ ~Exceeds(SizeRatio(cf2, l2), SizeRatio(cf, l))
        /\ VisitedBefore(cf2, l2, cf, l) =>
               Exceeds(SizeRatio(cf, l), SizeRatio(cf2, l2))

\* The priority computed on the shard names the L0 pool with its score, or
\* the first level of maximum score.
PriorityAsSpecified(pri) ==
    IF Len(l0Tbls) > NumLevelZeroTables
    THEN pri.CF = -1 /\ pri.Level = 0 /\ SameScore(pri.Score, PoolRatio)
    ELSE /\ pri.CF \in CFs
         /\ pri.Level \in Levels
         /\ IsFirstMax(pri.CF, pri.Level)
         /\ SameScore(pri.Score, SizeRatio(pri.CF, pri.Level))

AllLevelsEmpty == \A cf \in CFs, l \in Levels : levels[cf][l].totalSize = 0

\* C21 as stated: getCompactionPriority on any shard returns the L0 pool with
\* score 0.6*size score + 0.4*count score when the pool holds more than
\* NumLevelZeroTables tables, and otherwise the (cf, level) of maximum level
\* score, the first visited on ties.
C21_PriorityAsStated == PriorityAsSpecified(getCompactionPriority(l0Tbls, levels))

\* C21: as stated whenever the pool is over its limit or some level holds
\* data; on a shard whose pool is within its limit and whose levels are all
\* empty the result is CF 0, Level 0 with score 0, which names no level.
C21_Priority ==
    LET pri == getCompactionPriority(l0Tbls, levels)
    IN IF Len(l0Tbls) <= NumLevelZeroTables /\ AllLevelsEmpty
       THEN pri.CF = 0 /\ pri.Level = 0 /\ pri.Score.n = 0
       ELSE PriorityAsSpecified(pri)

\* A job was planned on a shard whose pool is within its limit and on which
\* two levels share the maximum score.
C21_Witness ==
    /\ worker.pc = "compact"
    /\ Len(l0Tbls) <= NumLevelZeroTables
    /\ jobs[worker.job].pri = getCompactionPriority(l0Tbls, levels)
    /\ \E cf \in CFs, l \in Levels :
          /\ <<cf, l>> # <<jobs[worker.job].pri.CF, jobs[worker.job].pri.Level>>
          /\ SameScore(SizeRatio(cf, l), jobs[worker.job].pri.Score)

\* ------------------------------------------------ claims on the loop check
Running == {s \in ShardIDs : gos[s].pc # "none"}

\* The goroutines of the current round are those of the first loop.i
\* priorities.
StartedThisRound == {loop.priorities[k].Shard : k \in 1..loop.i}

\* C22: a round starts at most NumCompactors goroutines, on distinct shards
\* none of which has a goroutine yet, taking the priorities from the front of
\* a list that holds each listed shard once, scores descending; at no time do
\* more than NumCompactors goroutines run.
C22_RoundBounded ==
    /\ [](/\ loop.i <= NumCompactors
          /\ loop.i <= Len(loop.priorities)
          /\ Cardinality(StartedThisRound) = loop.i
          /\ Running \subseteq StartedThisRound
          /\ Cardinality(Running) <= NumCompactors
          /\ \A k \in 1..(Len(loop.priorities) - 1) :
                 loop.priorities[k].Score >= loop.priorities[k + 1].Score)
    /\ [][/\ loop.pc = "plan" /\ loop'.pc = "spawn" =>
               /\ {loop'.priorities[k].Shard : k \in DOMAIN loop'.priorities}
                      = ListedShards(shards)
               /\ \A k \in DOMAIN loop'.priorities :
                      loop'.priorities[k].Score = shards[loop'.priorities[k].Shard].score
               /\ loop'.i = 0
          /\ loop'.i = loop.i + 1 =>
               /\ gos[loop.priorities[loop'.i].Shard].pc = "none"
               /\ gos'[loop.priorities[loop'.i].Shard].pc = "start"
               /\ shards'[loop.priorities[loop'.i].Shard].compacting]_vars

\* NumCompactors goroutines run and the round has left a listed shard of
\* lower score without one.
C22_Witness ==
    /\ loop.i = NumCompactors
    /\ Len(loop.priorities) > NumCompactors
    /\ Cardinality(Running) = NumCompactors
    /\ loop.priorities[1].Score > loop.priorities[NumCompactors + 1].Score

\* C26: once the closer is signalled the loop returns; it returns only when
\* every goroutine it started has run to its end, none of which is ever
\* stopped midway; after it has returned nothing is planned or started; and
\* it calls c.Done() once, as it returns.
C26_LoopShutdown ==
    /\ closed ~> (loop.pc = "done")
    /\ \A s \in ShardIDs : (gos[s].pc # "none") ~> (gos[s].pc = "none")
    /\ [](loop.pc = "done" => Running = {} /\ closed)
    /\ [](loop.done = IF loop.pc = "done" THEN 1 ELSE 0)
    /\ [][/\ \A s \in ShardIDs :
                (gos[s].pc # "none" /\ gos'[s].pc = "none") => gos[s].pc = "returned"
          /\ loop.pc = "done" => (loop' = loop /\ gos' = gos)]_vars

\* The loop has returned on the signal although a shard is still listed.
C26_Witness ==
    /\ closed
    /\ loop.pc = "done"
    /\ loop.done = 1
    /\ ListedShards(shards) # {}
    /\ \E s \in ShardIDs : shards[s].score < MaxScore

\* ------------------------------------------------ claims on the lock check
\* C25: a goroutine that merges the inputs of its job and writes the output
\* tables does not hold the shard's mutex, so an operation that takes the
\* mutex can begin meanwhile.
C25_MergeOutsideLock ==
    \A s \in ShardIDs : gos[s].pc = "merge" => shards[s].lock # "worker"

\* ------------------------------------------- claims on the watermark check
MaxOf(S) == CHOOSE x \in S : \A y \in S : y <= x

Supplied == {updaters.call[c].ts : c \in {d \in Callers : updaters.call[d].pc # "none"}}

\* C23: no step of any interleaving of UpdateMangedSafeTs calls lowers the
\* managed safe-ts, and whenever every call made has returned it is the
\* maximum of its initial value and the values supplied.
C23_SafeTsMonotonic ==
    /\ [][mangedSafeTS' >= mangedSafeTS]_vars
    /\ []((\A c \in Callers : updaters.call[c].pc \in {"none", "done"}) =>
              mangedSafeTS = MaxOf({updaters.init} \cup Supplied))

\* Every caller's call has returned: one of them raised a value that another
\* call had stored, and one supplied a value below the one the watermark
\* holds in the end.
C23_Witness ==
    /\ \A c \in Callers : updaters.call[c].pc = "done"
    /\ \E c \in Callers : updaters.call[c].old # updaters.init
                              /\ updaters.call[c].ts > updaters.call[c].old
    /\ \E c \in Callers : updaters.call[c].ts < mangedSafeTS
    /\ mangedSafeTS > updaters.init

\* C24: the safe-ts values that the helpers of one L0 job took from the
\* managed watermark are one and the same value.
C24_OneSafeTsPerJob ==
    \A i, j \in 1..Len(l0job.safeTS) : l0job.safeTS[i] = l0job.safeTS[j]

\* ----------------------------------------- claims on the lifecycle check
\* C16: while the process runs and the map holds the shard, a compacting
\* flag that is set is cleared again, whatever becomes of the job: it
\* completes, fails or is dropped without work, and with a listener its
\* ChangeSet is delivered.
C16_FlagEventuallyCleared ==
    compacting ~>
        (~compacting \/ panicked \/ shardMap # [present |-> TRUE, Ver |-> ShardVer])

\* The worker that takes the shard lock for a job of priority pri finds the
\* shard splitting, or registered at another Ver, or passive, or the level
\* the job is to compact empty.
FindsNoWork(pri) ==
    \/ splitting
    \/ /\ shardMap.present
       /\ \/ shardMap.Ver # ShardVer
          \/ passive
          \/ IF pri.CF = -1 THEN l0Tbls = <<>>
             ELSE levels[pri.CF][pri.Level].tables = <<>>

\* C18: a worker that finds the shard splitting, passive, at another Ver
\* than the registered one or with an empty source level returns nil without
\* aborting the process, emits no ChangeSet, allocates no table id and leaves
\* every level handler and the L0 pool as they are.
C18_NoOpDrop ==
    [][\A j \in 1..Len(jobs) :
          (jobs[j].kind = "planned" /\ jobs'[j].kind # "planned"
               /\ FindsNoWork(jobs[j].pri)) =>
              /\ jobs'[j].kind = "nil"
              /\ ~panicked'
              /\ emitted' = emitted
              /\ idAlloc' = idAlloc
              /\ levels' = levels
              /\ l0Tbls' = l0Tbls]_vars

\* C19: a worker whose shard was removed from the map after the job was
\* planned drops the job: CompactShard returns nil, the process does not
\* abort, no ChangeSet is emitted or written, no table id is allocated and
\* the levels and the L0 pool stay as they are.
C19_RemovedShardDropped ==
    [][\A j \in 1..Len(jobs) :
          (jobs[j].kind = "planned" /\ jobs'[j].kind # "planned"
               /\ ~shardMap.present) =>
              /\ jobs'[j].kind = "nil"
              /\ ~panicked'
              /\ emitted' = emitted
              /\ manifest' = manifest
              /\ idAlloc' = idAlloc
              /\ levels' = levels
              /\ l0Tbls' = l0Tbls]_vars

\* C20: a round of the compaction loop marks the shard compacting and starts
\* a goroutine on it only when the shard is not passive, not compacting, not
\* splitting and its best priority has a score above 1.
C20_PlannerEligibility ==
    [][(Len(jobs') > Len(jobs)) =>
          /\ ~passive
          /\ ~compacting
          /\ ~splitting
          /\ LET pri == getCompactionPriority(l0Tbls, levels)
             IN pri.Score.n > pri.Score.d
          /\ compacting'
          /\ worker'.pc = "compact"]_vars

\* ------------------------------------------- claims on the install check
\* C12: an install one of whose casLevelHandler calls failed has, once
\* applyCompaction returned, replaced no level handler, given no table to
\* guard.Delete and passed nothing to addEstimatedSize.
C12_CasFailureAborts ==
    \A seq \in DOMAIN appliers :
        (appliers[seq].pc = "done" /\ appliers[seq].casFailed # {}) =>
            /\ appliers[seq].swapped = {}
            /\ appliers[seq].handed = {}
            /\ appliers[seq].adj = 0

\* C14: once applyCompaction of a Level 0 ChangeSet has returned, with nil or
\* with an error, it has either replaced the level 1 handler of every column
\* family and removed the compacted tables from the L0 pool, or replaced no
\* handler and left the pool alone.
C14_L0InstallAllOrNothing ==
    \A seq \in DOMAIN appliers :
        (appliers[seq].pc = "done" /\ jobs[seq].comp.Level = 0) =>
            \/ /\ appliers[seq].swapped = {<<cf, 1>> : cf \in CFs}
               /\ appliers[seq].removedL0
            \/ /\ appliers[seq].swapped = {}
               /\ ~appliers[seq].removedL0

\* C15: applyCompaction of a Level 0 ChangeSet takes out of the L0 pool the
\* tables of its TopDeletes and no other: every other table of the pool,
\* the ones flushed since the job was planned among them, stays, in the
\* order it had, which is newest (highest id) first.
C15_L0RemovesCompacted ==
    [][\A seq \in DOMAIN appliers' :
          (appliers'[seq].removedL0 /\ ~appliers[seq].removedL0) =>
              /\ SeqToSet(jobs[seq].comp.TopDeletes) \subseteq SeqToSet(PoolIds(l0Tbls))
              /\ l0Tbls' = SelectSeq(l0Tbls,
                     LAMBDA t : t.id \notin SeqToSet(jobs[seq].comp.TopDeletes))
              /\ \A i \in 1..(Len(l0Tbls') - 1) : l0Tbls'[i].id > l0Tbls'[i + 1].id]_vars

\* ------------------------------------------------ claims on the executors
\* The merged input run of the job and the records of its output tables.
XIn == buildIterator(xcd)

XOut == ConcatIterator(xres.results)

XInAt(k) == {XIn[i] : i \in {j \in 1..Len(XIn) : XIn[j].uk = k}}

\* The output records of user key k at or below the watermark, by position.
XOutBelow(k) ==
    {i \in 1..Len(XOut) : XOut[i].uk = k /\ XOut[i].ver <= xcd.SafeTS}

XBelow(k) == {r \in XInAt(k) : r.ver <= xcd.SafeTS}

\* The newest input version of k at or below the watermark (XBelow(k) # {}).
XNewest(k) == CHOOSE r \in XBelow(k) : \A o \in XBelow(k) : o.ver <= r.ver

\* C4: in CompactTables and in the L0->L1 build, every input record whose
\* version is above the job's safe_ts is in the output unchanged (key, version,
\* meta, user_meta, value), whatever the filter, has_overlap and its meta are.
C4_AboveSafeTsVerbatim ==
    xpc \in {"ct", "l0"} =>
        \A i \in 1..Len(XIn) :
            XIn[i].ver > xcd.SafeTS => \E j \in 1..Len(XOut) : XOut[j] = XIn[i]

\* A run with a dropping filter and no overlap whose input holds a
\* delete-marker and a put above the watermark.
C4_Witness ==
    /\ xpc = "ct"
    /\ xcd.Filter.on /\ xcd.Filter.d[1] = DecisionDrop /\ ~xcd.HasOverlap
    /\ \E i, j \in 1..Len(XIn) :
        /\ XIn[i].ver > xcd.SafeTS /\ isDeleted(XIn[i].meta)
        /\ XIn[j].ver > xcd.SafeTS /\ XIn[j].uk = 1 /\ ~isDeleted(XIn[j].meta)
    /\ \E k \in UserKeys : XBelow(k) # {}

\* C5 as stated: a user key with two or more input versions <= safe_ts has
\* exactly one of them, the newest, in the output of CompactTables.
C5_ExactlyNewestSurvives ==
    xpc = "ct" =>
        \A k \in UserKeys :
            Cardinality(XBelow(k)) >= 2 =>
                /\ Cardinality(XOutBelow(k)) = 1
                /\ \A i \in XOutBelow(k) : XOut[i] = XNewest(k)

\* Whether CompactTables keeps the newest version r at or below the watermark.
XSurvives(r) ==
    IF isDeleted(r.meta) THEN xcd.HasOverlap
    ELSE \/ ~xcd.Filter.on
         \/ xcd.Filter.d[r.uk] = DecisionKeep
         \/ xcd.Filter.d[r.uk] = DecisionMarkTombstone /\ xcd.HasOverlap

\* C5 amended: of the input versions <= safe_ts of a user key that has two or
\* more, every one but the newest is dropped, and the newest is in the output
\* at most once: exactly once unless it is a delete-marker and has_overlap is
\* false, or the filter answers Drop, or MarkTombstone with has_overlap false.
C5_AtMostNewestSurvives ==
    xpc = "ct" =>
        \A k \in UserKeys :
            Cardinality(XBelow(k)) >= 2 =>
                /\ \A i \in XOutBelow(k) : XOut[i].ver = XNewest(k).ver
                /\ Cardinality(XOutBelow(k)) = IF XSurvives(XNewest(k)) THEN 1 ELSE 0

\* A run that writes two tables, the first ending on a key with two versions
\* at or below the watermark of which one is written.
C5_Witness ==
    /\ xpc = "ct"
    /\ Len(xres.results) >= 2
    /\ \E k \in UserKeys :
        /\ Cardinality(XBelow(k)) >= 2
        /\ Cardinality(XOutBelow(k)) = 1
        /\ xres.results[1].recs[Len(xres.results[1].recs)].uk = k

\* C6: in CompactTables, when the newest version <= safe_ts of a user key is a
\* delete-marker, the output holds no version <= safe_ts of the key if
\* has_overlap is false, and exactly that delete-marker if has_overlap is true.
C6_TombstoneElision ==
    xpc = "ct" =>
        \A k \in UserKeys :
            (XBelow(k) # {} /\ isDeleted(XNewest(k).meta)) =>
                IF xcd.HasOverlap
                THEN /\ Cardinality(XOutBelow(k)) = 1
                     /\ \A i \in XOutBelow(k) : XOut[i] = XNewest(k)
                ELSE XOutBelow(k) = {}

\* Two keys whose newest version below the watermark is a delete-marker over
\* an older put, one run with overlap.
C6_Witness ==
    /\ xpc = "ct"
    /\ xcd.HasOverlap
    /\ \E k \in UserKeys :
        /\ Cardinality(XBelow(k)) >= 2
        /\ isDeleted(XNewest(k).meta)
        /\ \E r \in XBelow(k) : ~isDeleted(r.meta)
        /\ Cardinality(XOutBelow(k)) = 1

\* C7: no two output tables of one job (CompactTables or the L0->L1 build)
\* hold records of the same user key.
C7_UserKeyInOneTable ==
    xpc \in {"ct", "l0"} =>
        \A a, b \in 1..Len(xres.results) :
            a # b =>
                \A i \in 1..Len(xres.results[a].recs), j \in 1..Len(xres.results[b].recs) :
                    xres.results[a].recs[i].uk # xres.results[b].recs[j].uk

\* An L0->L1 build whose first table holds two versions of one user key and
\* was closed, over its size, when the next user key started.
C7_Witness ==
    /\ xpc = "l0"
    /\ Len(xres.results) >= 2
    /\ Len(xres.results[1].recs) >= 2
    /\ xres.results[1].recs[1].uk = xres.results[1].recs[2].uk

\* C8: in CompactTables with a filter, for the newest version <= safe_ts of a
\* user key, when it is no delete-marker: Keep leaves it in the output
\* unchanged; MarkTombstone leaves a delete-marker with no value at its key and
\* version when has_overlap is true and nothing when it is false; Drop leaves
\* nothing; and in all cases no older version of the key is in the output.
C8_FilterDecisions ==
    (xpc = "ct" /\ xcd.Filter.on) =>
        \A k \in UserKeys :
            (XBelow(k) # {} /\ ~isDeleted(XNewest(k).meta)) =>
                LET n == XNewest(k)
                    d == xcd.Filter.d[k]
                    want == IF d = DecisionKeep THEN {n}
                            ELSE IF d = DecisionMarkTombstone /\ xcd.HasOverlap
                                 THEN {TombstoneOf(n)}
                            ELSE {}
                IN /\ {XOut[i] : i \in XOutBelow(k)} = want
                   /\ Cardinality(XOutBelow(k)) = Cardinality(want)

\* One run in which the filter marks key 1 and keeps the others, each over an
\* older version, with overlap.
C8_Witness ==
    /\ xpc = "ct"
    /\ xcd.Filter.on /\ xcd.HasOverlap
    /\ xcd.Filter.d[1] = DecisionMarkTombstone
    /\ Cardinality(XBelow(1)) >= 2
    /\ ~isDeleted(XNewest(1).meta)
    /\ \E i \in 1..Len(XOut) : XOut[i] = TombstoneOf(XNewest(1))

\* C27: on the same merged run, safe-ts, filter and deeper overlap the L0->L1
\* build loop writes the records that CompactTables writes, in the same
\* order, and calls the filter on the same records with the same column
\* family.
C27_SameRulesAsCompactTables ==
    xpc = "l0" =>
        /\ XOut = ConcatIterator(CompactTables(xcd, FirstOutputID).results)
        /\ xres.calls = CompactTables(xcd, FirstOutputID).calls

\* C29: in one run of either executor the filter is called at most once per
\* user key, and each call is on the newest version <= safe-ts of its key,
\* which is no delete-marker: never on a version above safe-ts, on a
\* delete-marker, or on a version older than the newest one <= safe-ts.
C29_FilterOncePerKey ==
    xpc \in {"ct", "l0"} =>
        /\ \A i, j \in 1..Len(xres.calls) :
               i # j => xres.calls[i].rec.uk # xres.calls[j].rec.uk
        /\ \A i \in 1..Len(xres.calls) :
               LET r == xres.calls[i].rec
               IN /\ r.ver <= xcd.SafeTS
                  /\ ~(r.meta = bitDelete)
                  /\ r \in XInAt(r.uk)
                  /\ \A o \in XInAt(r.uk) : o.ver <= xcd.SafeTS => o.ver <= r.ver

\* A run with a filter over a key that has a version above safe-ts and two
\* at or below it: the filter was called once, on the newer of the two.
C29_Witness ==
    /\ xpc \in {"ct", "l0"}
    /\ xcd.Filter.on
    /\ Len(xres.calls) = 1
    /\ \E k \in UserKeys :
          /\ Cardinality(XBelow(k)) >= 2
          /\ XInAt(k) # XBelow(k)
          /\ xres.calls[1].rec = XNewest(k)

\* ------------------------------------------------ claims on the table checks
\* Every table's Smallest is at or before its Biggest and every table's
\* Biggest is before the next table's Smallest.
StrictlyOrderedDisjoint(tables) ==
    /\ \A i \in 1..Len(tables) : Compare(Smallest(tables[i]), Biggest(tables[i])) <= 0
    /\ \A i \in 1..(Len(tables) - 1) :
           Compare(Biggest(tables[i]), Smallest(tables[i + 1])) < 0

\* C28: on a level >= 1 assertTablesOrder returns exactly for the sequences
\* that are strictly ordered and disjoint and panics for every other one; on
\* level 0 it returns for every sequence.
C28_AssertTablesOrder ==
    tpc = "order" =>
        (tres.ok <=> (tin.level = 0 \/ StrictlyOrderedDisjoint(tin.this)))

\* The next-level tables that share a key with table t, and the ratio of t's
\* size to the greater of 1 and their total size, as a fraction.
Overlapping(t, next) ==
    SelectSeq(next, LAMBDA b : /\ b.recs[1].uk <= t.recs[Len(t.recs)].uk
                               /\ t.recs[1].uk <= b.recs[Len(b.recs)].uk)

SeedRatio(t, next) ==
    IF sumTableSize(Overlapping(t, next)) = 0 THEN [n |-> Size(t), d |-> 1]
    ELSE [n |-> Size(t) \div RecSize, d |-> sumTableSize(Overlapping(t, next)) \div RecSize]

RangesMeet(a, b) ==
    /\ a.recs[1].uk <= b.recs[Len(b.recs)].uk
    /\ b.recs[1].uk <= a.recs[Len(a.recs)].uk

\* Table t of the level holds a record of a user key inside table b's range.
HasKeyIn(t, b) ==
    \E i \in 1..Len(t.recs) :
        t.recs[i].uk >= b.recs[1].uk /\ t.recs[i].uk <= b.recs[Len(b.recs)].uk

C32_SkippedOrBot ==
    (tpc = "fill" /\ tres.ok) =>
        LET cd == tres.cd
            win == Slice(tin.next, cd.botLeftIdx, cd.botRightIdx)
        IN /\ \A j \in 1..Len(win) :
                  LET skip == /\ \A i \in 1..Len(cd.Top) : ~HasKeyIn(cd.Top[i], win[j])
                              /\ Len(win[j].recs) * RecSize >= minSkippedTableSize
                  IN /\ win[j].id \in Ids(cd.SkippedTbls) <=> skip
                     /\ win[j].id \in Ids(cd.Bot) <=> ~skip
           /\ Ids(cd.Bot) \cap Ids(cd.SkippedTbls) = {}
           /\ cd.botSize = sumTableSize(cd.Bot)
           /\ cd.topSize = sumTableSize(cd.Top)

\* The window holds a skipped table, a small table no top key falls into,
\* and a table a top key falls into.
C32_Witness ==
    /\ tpc = "fill"
    /\ tres.ok
    /\ Len(tres.cd.SkippedTbls) = 1
    /\ Len(tres.cd.Bot) = 2
    /\ \E j \in 1..2 :
           /\ Len(tres.cd.Bot[j].recs) = 1
           /\ \A i \in 1..Len(tres.cd.Top) : ~HasKeyIn(tres.cd.Top[i], tres.cd.Bot[j])

\* The output table t holds a user key before table b's range and one after it.
Straddles(t, b) ==
    /\ \E i \in 1..Len(t.recs) : t.recs[i].uk < b.recs[1].uk
    /\ \E i \in 1..Len(t.recs) : t.recs[i].uk > b.recs[Len(b.recs)].uk

\* C33: no table CompactTables builds holds keys on both sides of a skipped
\* table of the job.
C33_SkippedBetweenOutputs ==
    xpc = "ct" =>
        \A i \in 1..Len(xres.results), j \in 1..Len(xcd.SkippedTbls) :
            ~Straddles(xres.results[i], xcd.SkippedTbls[j])

\* A job whose records fit one table by size is cut in two at a skipped table:
\* the first output ends before it and the second starts after it.
C33_Witness ==
    /\ xpc = "ct"
    /\ xcd.MaxTableSize = MaxRecs * RecSize
    /\ Len(xres.results) = 2
    /\ \E j \in 1..Len(xcd.SkippedTbls) :
           /\ xres.results[1].recs[Len(xres.results[1].recs)].uk
                  < xcd.SkippedTbls[j].recs[1].uk
           /\ xres.results[2].recs[1].uk > xcd.SkippedTbls[j].recs[1].uk

\* The ChangeSet an install step has just written to the manifest.
InstalledJob == CHOOSE seq \in manifest' : seq \notin manifest

\* C34: with no filter installed, a point lookup of any key of any column
\* family at a read timestamp at or above the watermark a job read returns
\* the same on the hierarchy the job's install leaves as on the one it found.
C34_InstallKeepsLookups ==
    [][(manifest' # manifest /\ ~panicked') =>
          \A cf \in CFs, key \in ShardKeys, r \in jobs'[InstalledJob].safeTS..MaxVer :
              Get(getValue(l0Tbls', levels', cf, key, r))
                  = Get(getValue(l0Tbls, levels, cf, key, r))]_vars

\* C35: every level handler of the shard holds as totalSize the sum of the
\* sizes of its tables, whatever applyCompaction and applySplitFiles have
\* published.
C35_TotalSizeIsSum ==
    \A cf \in CFs, level \in Levels :
        levels[cf][level].totalSize = sumTableSize(levels[cf][level].tables)

\* C37: after applySplitFiles has succeeded, and before any other install,
\* every table of TableCreates is in the handler of its column family and
\* level, and no table of TableDeletes is in the L0 pool or in any level.
C37_SplitFilesInstalled ==
    (splitFiles.pc = "done" /\ manifest = {SplitSeq}) =>
        /\ \A i \in 1..Len(splitFiles.sf.TableCreates) :
               splitFiles.sf.TableCreates[i].ID
                   \in Ids(levels[splitFiles.sf.TableCreates[i].CF]
                                 [splitFiles.sf.TableCreates[i].Level].tables)
        /\ SeqToSet(splitFiles.sf.TableDeletes) \cap LiveIds = {}


\* C36: the planner never selects a job whose target level (level + 1) lies
\* beyond ShardMaxLevel: the deepest level of a column family is never the
\* source level of a planned compaction.
C36_DeepestLevelNeverSource ==
    \A j \in 1..Len(jobs) :
        jobs[j].pri.CF # -1 => jobs[j].pri.Level + 1 <= ShardMaxLevel


\* C38: every file id a job allocates and opens for output is the id of one
\* of its build results, the tables its ChangeSet creates: no allocated and
\* opened output file is left out of the ChangeSet.
C38_OpenedFilesAreCreated ==
    xpc # "in" => SeqToSet(xres.opened) = {xres.results[i].id : i \in 1..Len(xres.results)}

\* The items returned so far that were taken from the write CF entry w.
ItemsOfWrite(w) ==
    {i \in 1..Len(snapApp.items) :
        /\ snapApp.items[i].applySnapType # "applySnapTypeLock"
        /\ snapApp.items[i].key = w.key
        /\ snapApp.items[i].startTS = w.startTS}

\* The call of this step returned an item and moved the stream it came from.
ItemAdvancesStream ==
    Len(snapApp'.items) > Len(snapApp.items) =>
        IF snapApp'.items[Len(snapApp'.items)].applySnapType = "applySnapTypeLock"
        THEN \/ Len(snapApp'.lockCFData) < Len(snapApp.lockCFData)
             \/ snapApp'.curLockKey = 0
        ELSE snapApp'.writeCFIterator > snapApp.writeCFIterator

\* No write CF entry has been returned twice, all of them have been returned
\* once next() has returned nil, and the items are in key order, the lock of a
\* key before its writes.
ItemsOnceInOrder ==
    /\ \A j \in 1..Len(snapApp.writeCF) :
          /\ Cardinality(ItemsOfWrite(snapApp.writeCF[j])) <= 1
          /\ snapApp.pc = "nil" => Cardinality(ItemsOfWrite(snapApp.writeCF[j])) = 1
    /\ \A i \in 1..(Len(snapApp.items) - 1) :
          /\ snapApp.items[i].key <= snapApp.items[i + 1].key
          /\ snapApp.items[i + 1].applySnapType = "applySnapTypeLock"
                 => snapApp.items[i].key < snapApp.items[i + 1].key

\* C39: repeated calls of snapApplier.next() consume the lock and write
\* streams: every call that returns an item advances the stream the item was
\* taken from, each write CF entry (Put, Lock or Rollback) is returned exactly
\* once, the items come in non-decreasing key order with the lock first on
\* equal keys, and next() eventually returns nil.
C39_NextConsumesStreams ==
    /\ [][ItemAdvancesStream]_vars
    /\ [](snapApp.pc # "off" => ItemsOnceInOrder)
    /\ <>(snapApp.pc = "nil")

\* The tasks of type tp between their increment and their decrement.
RunningTasks(tp) ==
    {t \in SnapTasks : snapRun.tasks[t].tp = tp /\ snapRun.tasks[t].pc = "running"}

SnapLimitsHold ==
    /\ snapRun.sendingCount <= ConcurrentSendSnapLimit
    /\ snapRun.receivingCount <= ConcurrentRecvSnapLimit
    /\ Cardinality(RunningTasks("taskTypeSnapSend")) <= ConcurrentSendSnapLimit
    /\ Cardinality(RunningTasks("taskTypeSnapRecv")) <= ConcurrentRecvSnapLimit
    /\ RunningTasks("taskTypeSnapSend") = {} => snapRun.sendingCount = 0
    /\ RunningTasks("taskTypeSnapRecv") = {} => snapRun.receivingCount = 0

\* A step that rejects a task hands an error to its callback and leaves both
\* counters as they are.
RejectKeepsCounters ==
    \A t \in SnapTasks :
        (snapRun.tasks[t].pc = "handle" /\ snapRun'.tasks[t].pc = "returned") =>
            /\ snapRun'.tasks[t].callback = "error"
            /\ snapRun'.sendingCount = snapRun.sendingCount
            /\ snapRun'.receivingCount = snapRun.receivingCount

\* C40: under any interleaving of snapRunner.handle calls the number of send
\* tasks running at once never exceeds ConcurrentSendSnapLimit and the number
\* of receive tasks never exceeds ConcurrentRecvSnapLimit; a task over the
\* limit is rejected through its callback with an error without changing the
\* counter, and each counter is back to 0 when no task is running.
C40_SnapLimits ==
    /\ [](snapRun.pc # "off" => SnapLimitsHold)
    /\ [][RejectKeepsCounters]_vars

====
